---- MODULE Spec2Model ----
(***************************************************************************)
(* Model of the gem-back resilience core (python/gemback): the credential  *)
(* rotator, the rate-limit tracker, the health monitor and the             *)
(* GemBack.generate retry/fallback engine.                                 *)
(*                                                                         *)
(* A call of generate is a coroutine: it runs without interruption between *)
(* two awaits, so every action below is one such segment.  The awaits are  *)
(* the collaborator invocation (pc = "invoking") and the backoff sleep     *)
(* (pc = "sleeping").  Time is in whole seconds, latencies in ms.          *)
(*                                                                         *)
(* generate_stream is an async generator: its awaits are the opening of    *)
(* the stream (pc = "opening") and the wait for the next chunk, with the   *)
(* yield that hands the fragment over (pc = "streaming").                  *)
(*                                                                         *)
(* The rotator, the tracker and the monitor are also driven on their own   *)
(* (SpecRot, SpecRate, SpecHealth), with their calls logged in history     *)
(* variables that are never pruned.                                        *)
(*                                                                         *)
(* Further specifications add the caller's other moves: get_fallback_stats *)
(* between the steps of a call (SpecStats), two coroutines calling         *)
(* generate at once (SpecConc), cancellation at an await (SpecCancel) and  *)
(* construction from any key list (SpecBuild).  SpecSimple is the          *)
(* synchronous GemBackClient of src/client.py, kept in simple_client.      *)
(***************************************************************************)
EXTENDS Integers, Sequences, FiniteSets, TLC

\* ------------------------------------------------------------------ bounds
MaxKeys == 3            \* most credentials a client or rotator is built with
MaxRetries == 2         \* largest configured max_retries
MaxDelay == 2           \* largest configured retry_delay (seconds)
MaxCalls == 2           \* generate calls started in one behaviour
MaxSelections == 4      \* direct get_next_key calls in one rotator behaviour
MaxRecords == 2         \* direct record_success/record_failure calls
NumProcs == 2           \* coroutines sharing one client
MaxLatency == 1         \* longest collaborator round trip (seconds)
MaxRateRecords == 3     \* direct RateLimitTracker.record_request calls
MaxQueries == 2         \* direct tracker / monitor queries
MaxHealthRecords == 3   \* direct HealthMonitor.record_request calls
MaxChunks == 2          \* most fragments one model streams

\* Python's None, for an absent attribute or a missing key index.
None == -1

\* ------------------------------------------------------- program constants
WindowSecs == 300       \* rate_limit.py _cleanup horizon
MinuteSecs == 60        \* rate_limit.py one-minute window
DefaultLimit == 15      \* rate_limit.py limit of an unknown model
BufferCap == 100        \* health.py latency buffer
RateLimitStatus == 429
ServerErrorFloor == 500
UnhealthyRun == 3       \* health.py consecutive failures that mean unhealthy
SlowMs == 5000          \* health.py p95 latency above which a model degrades
AuthStatuses == {401, 403}

Procs == 1 .. NumProcs
Models == {"gemini-2.5-flash", "gemini-1.5-pro"}
NoModel == ""           \* generate(prompt, model=None)
Strategies == {"round-robin", "least-used"}

\* Injective sequences over Models: the fallback orders a client is given.
FallbackOrders ==
    {<<>>} \cup {<<m>> : m \in Models}
           \cup {s \in Models \X Models : s[1] # s[2]}

\* ----------------------------------------------- the collaborator's answers
\* An answer is a response (ok) or an exception with optional attributes
\* code and status_code and a message text.
Ok == [ok |-> TRUE, code |-> None, status_code |-> None, text |-> "ok"]
NoAnswer == [ok |-> FALSE, code |-> None, status_code |-> None, text |-> ""]

Err(c, s, t) == [ok |-> FALSE, code |-> c, status_code |-> s, text |-> t]

Errors ==
    { Err(429, None, "Request Timeout"),
      Err(None, 503, "Server error"),
      Err(None, None, "Request Timeout"),
      Err(None, None, "Fail"),
      Err(401, None, "Unauthorized"),
      Err(None, 403, "Connection refused: forbidden") }

\* "timeout" in str(e).lower() or "connection" in str(e).lower()
MentionsTransient(text) ==
    text \in {"Request Timeout", "Connection refused: forbidden"}

\* getattr(e, "code", None) or getattr(e, "status_code", None)
StatusOf(e) == IF e.code # None /\ e.code # 0 THEN e.code ELSE e.status_code

\* ------------------------------------------------------------------- state
VARIABLES
    options,             \* GemBackOptions of the client (fixed after __init__)
    current_index,       \* ApiKeyRotator.current_index
    stats,               \* ApiKeyRotator.stats : index -> KeyStats
    request_timestamps,  \* RateLimitTracker.request_timestamps : model -> list
    health_data,         \* HealthMonitor.health_data : model -> dict
    now,                 \* time.time()
    calls,               \* generate calls started so far
    pc,                  \* per coroutine: idle / invoking / sleeping / done
    models_to_try,       \* per coroutine: generate's models_to_try
    cur,                 \* per coroutine: position of current_model (1-based)
    key_info,            \* per coroutine: {"key", "index"} from _get_api_key
    start_time,          \* per coroutine: start_time of the current model
    retries,             \* per coroutine: _generate_with_retry's retries
    wake,                \* per coroutine: when the pending asyncio.sleep ends
    attempts,            \* per coroutine: generate's attempts list
    outcome,             \* per coroutine: what the call returned or raised
    invCount,            \* history: collaborator invocations per position
    answers,             \* history: last collaborator answer per position
    delays,              \* history: sleep arguments per position
    keys_used,           \* history: credentials the invocations were made with
    selections,          \* history: get_next_key calls made so far
    selected,            \* history: indices get_next_key returned, in order
    records,             \* history: direct record_success/failure calls
    has_yielded,         \* per coroutine: generate_stream's has_yielded
    fragments,           \* history: fragments yielded per position
    rate_log,            \* history: model -> times of direct record_request
    health_log,          \* history: model -> samples given to HealthMonitor
    queries,             \* history: direct tracker / monitor queries
    reply,               \* history: what the last direct query returned
    seeded,              \* history: health samples recorded before the start
    simple_client        \* the GemBackClient of src/client.py, its call in
                         \* progress and the history of that call (invoked,
                         \* index_at_call)

\* what no method of GemBack, of the rotator or of the monitors writes
cfgVars == <<options, simple_client>>
rotVars == <<current_index, stats>>
monVars == <<request_timestamps, health_data>>
callVars == <<pc, models_to_try, cur, key_info, start_time, retries, wake,
              attempts, outcome>>
histVars == <<invCount, answers, delays, keys_used>>
selVars == <<selections, selected, records>>
auxVars == <<has_yielded, fragments, rate_log, health_log, queries, reply,
             seeded>>
vars == <<cfgVars, rotVars, monVars, now, calls, callVars, histVars, selVars,
          auxVars>>

NumKeys == options.num_keys
\* client.py:38  the client builds a rotator only for more than one key
HasRotator == NumKeys > 1
KeyIndices == 0 .. (NumKeys - 1)

\* ---------------------------------------------------------- ApiKeyRotator
KeyStats == [total_requests |-> 0, success_count |-> 0, failure_count |-> 0,
             last_used |-> 0]

\* NextCursor without the wrap-around
NextCursorNoWrap(c, k) == c + 1

\* rotators.py:30  the round-robin cursor after one selection
NextCursor(c, k) == (c + 1) % k

\* rotators.py:33  min() scans the entries in insertion order (0, 1, ...) and
\* replaces its candidate only by a strictly smaller total_requests
RECURSIVE MinScan(_, _, _, _)
MinScan(st, i, best, keepFirst) ==
    IF i \notin DOMAIN st THEN best
    ELSE LET smaller == st[i].total_requests < st[best].total_requests
             equal == st[i].total_requests = st[best].total_requests
         IN  MinScan(st, i + 1,
                     IF smaller \/ (equal /\ ~keepFirst) THEN i ELSE best,
                     keepFirst)

\* a scan that keeps the last minimal entry instead of the first
LeastUsedIndexLast(st) == MinScan(st, 1, 0, FALSE)

\* rotators.py:33  min(self.stats.items(), key=total_requests)[0]
LeastUsedIndex(st) == MinScan(st, 1, 0, TRUE)

\* PickIndex reading the cursor after it was advanced
PickIndexAfterAdvance(strategy, c, st) ==
    IF strategy = "round-robin" THEN (c + 1) % Cardinality(DOMAIN st)
    ELSE IF strategy = "least-used" THEN LeastUsedIndex(st)
    ELSE 0

\* rotators.py:27-33  the index get_next_key picks
PickIndex(strategy, c, st) ==
    IF strategy = "round-robin" THEN c
    ELSE IF strategy = "least-used" THEN LeastUsedIndex(st)
    ELSE 0

\* rotators.py:28-30  the cursor get_next_key leaves behind
CursorAfterPick(strategy, c, k) ==
    IF strategy = "round-robin" THEN NextCursor(c, k) ELSE c

\* rotators.py:36  self.stats[index].last_used = time.time()
TouchLastUsed(st, i, t) == [st EXCEPT ![i].last_used = t]

\* rotators.py:40-43
record_success(st, i) ==
    IF i \in DOMAIN st
    THEN [st EXCEPT ![i].success_count = @ + 1, ![i].total_requests = @ + 1]
    ELSE st

\* rotators.py:45-48
record_failure(st, i) ==
    IF i \in DOMAIN st
    THEN [st EXCEPT ![i].failure_count = @ + 1, ![i].total_requests = @ + 1]
    ELSE st

\* ------------------------------------------------------- RateLimitTracker
\* _cleanup keeping the timestamp that is exactly 300 seconds old
CleanupInclusive(ts, t) == SelectSeq(ts, LAMBDA x : x >= t - WindowSecs)

\* rate_limit.py:42-47  keep the timestamps newer than now - 300
Cleanup(ts, t) == SelectSeq(ts, LAMBDA x : x > t - WindowSecs)

\* rate_limit.py:49-52  get_status prunes the window of a known model
StatusCleanup(rts, m, t) ==
    IF m \in DOMAIN rts
    THEN [x \in DOMAIN rts |-> IF x = m THEN Cleanup(rts[x], t) ELSE rts[x]]
    ELSE rts

\* RateRecordRequest that appends and leaves the pruning out
RateRecordRequestNoCleanup(rts, m, t) ==
    LET old == IF m \in DOMAIN rts THEN rts[m] ELSE <<>>
    IN  [x \in DOMAIN rts \cup {m} |-> IF x = m THEN Append(old, t) ELSE rts[x]]

\* rate_limit.py:33-40
RateRecordRequest(rts, m, t) ==
    LET old == IF m \in DOMAIN rts THEN rts[m] ELSE <<>>
    IN  [x \in DOMAIN rts \cup {m} |->
            IF x = m THEN Cleanup(Append(old, t), t) ELSE rts[x]]

\* ---------------------------------------------------------- HealthMonitor
NewHealth == [response_times |-> <<>>, successes |-> 0, failures |-> 0,
              consecutive_failures |-> 0]

\* a full buffer that turns the new sample away
PushLatencyDropNewest(buf, ms) ==
    IF Len(buf) >= BufferCap THEN buf ELSE Append(buf, ms)

\* health.py:44-47  append, then drop the oldest sample beyond the cap
PushLatency(buf, ms) ==
    LET b == Append(buf, ms)
    IN  IF Len(b) > BufferCap THEN Tail(b) ELSE b

\* HealthRecordRequest writing a record computed from a blank one: what the
\* model's record held before is lost
HealthRecordRequestFresh(hd, m, ms, success) ==
    LET new == [response_times |-> <<ms>>,
                successes |-> IF success THEN 1 ELSE 0,
                failures |-> IF success THEN 0 ELSE 1,
                consecutive_failures |-> IF success THEN 0 ELSE 1]
    IN  [x \in DOMAIN hd \cup {m} |-> IF x = m THEN new ELSE hd[x]]

\* health.py:33-54
HealthRecordRequest(hd, m, ms, success) ==
    LET old == IF m \in DOMAIN hd THEN hd[m] ELSE NewHealth
        new == [response_times |-> PushLatency(old.response_times, ms),
                successes |-> IF success THEN old.successes + 1
                              ELSE old.successes,
                failures |-> IF success THEN old.failures
                             ELSE old.failures + 1,
                consecutive_failures |->
                    IF success THEN 0 ELSE old.consecutive_failures + 1]
    IN  IF m \in DOMAIN hd THEN [hd EXCEPT ![m] = new]
        ELSE [x \in DOMAIN hd \cup {m} |-> IF x = m THEN new ELSE hd[x]]

\* rate_limit.py:24-29, 58
Limit(m) ==
    CASE m = "gemini-2.5-flash" -> 15
      [] m = "gemini-2.5-flash-lite" -> 15
      [] m = "gemini-1.5-flash" -> 15
      [] m = "gemini-1.5-pro" -> 2
      [] OTHER -> DefaultLimit

\* rate_limit.py:54-56  requests in the last minute, after get_status pruned
CurrentRpm(rts, m, t) ==
    LET ts == IF m \in DOMAIN rts THEN rts[m] ELSE <<>>
    IN  Len(SelectSeq(ts, LAMBDA x : x > t - MinuteSecs))

\* rate_limit.py:75-77
WouldExceedLimit(rts, m, t) ==
    CurrentRpm(StatusCleanup(rts, m, t), m, t) >= Limit(m)

\* rate_limit.py:49-73  the counts get_status returns (utilization_percent and
\* the flags derived from it are floating-point and left out)
GetStatus(rts, m, t) ==
    LET r1 == StatusCleanup(rts, m, t)
        timestamps == IF m \in DOMAIN r1 THEN r1[m] ELSE <<>>
    IN  [current_rpm |-> CurrentRpm(r1, m, t),
         max_rpm |-> Limit(m),
         requests_in_last_minute |-> CurrentRpm(r1, m, t),
         requests_in_last_5_minutes |-> Len(timestamps)]

\* sorted(): the smallest value as often as it occurs, then the rest sorted
RECURSIVE SortedRuns(_, _)
SortedRuns(sq, vals) ==
    IF vals = {} THEN <<>>
    ELSE LET v == CHOOSE x \in vals : \A y \in vals : x <= y
             n == Cardinality({j \in DOMAIN sq : sq[j] = v})
         IN  [i \in 1 .. n |-> v] \o SortedRuns(sq, vals \ {v})
Sorted(sq) == SortedRuns(sq, {sq[i] : i \in DOMAIN sq})

\* the wait computed from the oldest stored timestamp, in the window or not
RecommendedWaitMsOldestStored(rts, m, t) ==
    LET r1 == StatusCleanup(rts, m, t)
        timestamps == IF m \in DOMAIN r1 THEN r1[m] ELSE <<>>
    IN  IF ~WouldExceedLimit(rts, m, t) \/ timestamps = <<>> THEN 0
        ELSE LET wait == Sorted(timestamps)[1] + MinuteSecs - t
             IN  (IF wait > 0 THEN wait ELSE 0) * 1000

\* rate_limit.py:79-103  get_recommended_wait_time, in milliseconds
RecommendedWaitMs(rts, m, t) ==
    LET r1 == StatusCleanup(rts, m, t)
        timestamps == IF m \in DOMAIN r1 THEN r1[m] ELSE <<>>
        valid_timestamps ==
            Sorted(SelectSeq(timestamps, LAMBDA x : x > t - MinuteSecs))
    IN  IF ~WouldExceedLimit(rts, m, t) THEN 0
        ELSE IF timestamps = <<>> THEN 0
        ELSE LET oldest_in_window == valid_timestamps[1]
                 expiry == oldest_in_window + MinuteSecs
                 wait_seconds == IF expiry - t > 0 THEN expiry - t ELSE 0
             IN  wait_seconds * 1000

\* client.py:72-75  the prediction is logged only; what stays behind is the
\* pruning done by get_status (once more from get_recommended_wait_time)
PredictRate(rts, m, t) ==
    LET r1 == StatusCleanup(rts, m, t)
    IN  IF WouldExceedLimit(rts, m, t) THEN StatusCleanup(r1, m, t) ELSE r1

\* ------------------------------------------------- HealthMonitor.get_health
\* health.py:68-71  get_percentile(num / den) over the sorted latencies
Percentile(times, num, den) ==
    IF times = <<>> THEN 0
    ELSE LET idx == (Len(times) * num) \div den
             last == Len(times) - 1
         IN  times[(IF idx < last THEN idx ELSE last) + 1]

\* a status rule that needs a fourth failure in a row
HealthStatusLongerRun(cf, successes, total, times) ==
    IF cf > UnhealthyRun \/ (total > 0 /\ successes * 5 < 4 * total)
    THEN "unhealthy"
    ELSE IF \/ total > 0 /\ successes * 20 < 19 * total
            \/ times # <<>> /\ Percentile(times, 19, 20) > SlowMs
    THEN "degraded"
    ELSE "healthy"

\* health.py:61-62, 73-77  success_rate is successes / total (1.0 with no
\* request), so success_rate < 0.8 is successes * 5 < 4 * total and
\* success_rate < 0.95 is successes * 20 < 19 * total
HealthStatus(cf, successes, total, times) ==
    IF cf >= UnhealthyRun \/ (total > 0 /\ successes * 5 < 4 * total)
    THEN "unhealthy"
    ELSE IF \/ total > 0 /\ successes * 20 < 19 * total
            \/ times # <<>> /\ Percentile(times, 19, 20) > SlowMs
    THEN "degraded"
    ELSE "healthy"

\* health.py:56-94  get_health; success_rate is kept as the pair
\* <<successes, total>> (<<1, 1>> for 1.0), the average is left out
GetHealth(hd, m) ==
    LET data == IF m \in DOMAIN hd THEN hd[m] ELSE NewHealth
        total == data.successes + data.failures
        times == Sorted(data.response_times)
    IN  [model |-> m,
         status |-> HealthStatus(data.consecutive_failures, data.successes,
                                 total, times),
         success_rate |-> IF total > 0 THEN <<data.successes, total>>
                          ELSE <<1, 1>>,
         consecutive_failures |-> data.consecutive_failures,
         total_requests |-> total,
         successful_requests |-> data.successes,
         failed_requests |-> data.failures,
         p50_response_time |-> Percentile(times, 1, 2),
         p95_response_time |-> Percentile(times, 19, 20),
         p99_response_time |-> Percentile(times, 99, 100)]

\* ------------------------------------------------------ GemBack (client.py)
\* client.py:142-146
IsRetryable(e) ==
    \/ LET sc == StatusOf(e)
       IN  sc # None /\ sc # 0 /\ sc >= ServerErrorFloor
    \/ MentionsTransient(e.text)

\* ShouldRetry without the early raise on 429
ShouldRetryNo429Check(e, r, maxr) == IsRetryable(e) /\ r < maxr

\* ShouldRetry with the budget test off by one
ShouldRetryOffByOne(e, r, maxr) ==
    /\ StatusOf(e) # RateLimitStatus
    /\ IsRetryable(e)
    /\ r <= maxr

\* client.py:139-148  does _generate_with_retry go round again?
ShouldRetry(e, r, maxr) ==
    /\ StatusOf(e) # RateLimitStatus
    /\ IsRetryable(e)
    /\ r < maxr

\* BackoffDelay with the exponent taken after the increment
BackoffDelayDoubled(base, r) == base * (2 ^ r)

\* client.py:150  delay before retry number r (r counted from 1)
BackoffDelay(base, r) == base * (2 ^ (r - 1))

\* client.py:111
IsAuthStatus(sc) == sc \in AuthStatuses

\* client.py:59
ModelsToTry(model, order) == IF model # NoModel THEN <<model>> ELSE order

\* client.py:53-56  the key _get_api_key hands out
ApiKeyInfo(rot, strategy, c, st) ==
    IF rot
    THEN LET i == PickIndex(strategy, c, st) IN [key |-> i, index |-> i]
    ELSE [key |-> 0, index |-> None]

\* rotator bookkeeping that books every finished call as a success
RotatorRecordSuccessOnly(rot, st, ki, success) ==
    IF rot /\ ki.index # None THEN record_success(st, ki.index) ELSE st

\* client.py:89-90, 112-113, 118-119  rotator bookkeeping at the end of a call
RotatorRecord(rot, st, ki, success) ==
    IF rot /\ ki.index # None
    THEN IF success THEN record_success(st, ki.index)
         ELSE record_failure(st, ki.index)
    ELSE st

\* a tracker that is obeyed: a model over its limit is not recorded
AttemptRateEnforcing(mon, rts, m, t) ==
    IF ~mon THEN rts
    ELSE IF WouldExceedLimit(rts, m, t) THEN PredictRate(rts, m, t)
    ELSE RateRecordRequest(PredictRate(rts, m, t), m, t)

\* client.py:72-80  what the start of a model attempt does to the tracker
AttemptRate(mon, rts, m, t) ==
    IF mon THEN RateRecordRequest(PredictRate(rts, m, t), m, t) ELSE rts

\* AttemptHealth booking the outcome twice
AttemptHealthTwice(mon, hd, m, ms, success) ==
    IF mon
    THEN HealthRecordRequest(HealthRecordRequest(hd, m, ms, success),
                             m, ms, success)
    ELSE hd

\* client.py:86-87, 97-98
AttemptHealth(mon, hd, m, ms, success) ==
    IF mon THEN HealthRecordRequest(hd, m, ms, success) ELSE hd

\* client.py:84, 96  duration in milliseconds
DurationMs(t0, t1) == (t1 - t0) * 1000

\* AttemptRecord reading only the code attribute of the error
AttemptRecordCodeOnly(m, e, t) ==
    [model |-> m, error |-> e.text, timestamp |-> t, status_code |-> e.code]

\* client.py:102-107
AttemptRecord(m, e, t) ==
    [model |-> m, error |-> e.text, timestamp |-> t, status_code |-> StatusOf(e)]

NoOutcome == [kind |-> "none", model |-> NoModel, attempts |-> <<>>,
              status_code |-> None]
\* Success naming the first configured model instead of the current one
SuccessNamesDefault(m) ==
    [kind |-> "Success",
     model |-> IF options.fallback_order # <<>>
               THEN options.fallback_order[1] ELSE m,
     attempts |-> <<>>, status_code |-> None]

\* client.py:93
Success(m) == [kind |-> "Success", model |-> m, attempts |-> <<>>,
               status_code |-> None]
\* client.py:114-116
AuthError(att, sc, m) == [kind |-> "AUTH_ERROR", model |-> m, attempts |-> att,
                          status_code |-> sc]
\* AllModelsFailed re-raising the last collaborator error as it came
AllModelsFailedReraise(att) ==
    [kind |-> "COLLABORATOR_ERROR", model |-> NoModel, attempts |-> <<>>,
     status_code |-> IF att = <<>> THEN None ELSE att[Len(att)].status_code]

\* client.py:121
AllModelsFailed(att) == [kind |-> "ALL_MODELS_FAILED", model |-> NoModel,
                         attempts |-> att, status_code |-> None]

OptionSpace ==
    [num_keys : 1 .. MaxKeys,
     api_key_rotation_strategy : Strategies,
     fallback_order : FallbackOrders,
     max_retries : 0 .. MaxRetries,
     retry_delay : 1 .. MaxDelay,
     enable_monitoring : BOOLEAN]

NoReply == [op |-> "none", model |-> NoModel, at |-> 0, value |-> 0]

\* src/client.py:40-42  a GemBackClient just constructed, no call made
FreshSimpleClient ==
    [current_key_index |-> 0,
     pc |-> "idle",
     models_to_try |-> <<>>,
     model_pos |-> 0,
     keys_to_try |-> <<>>,
     key_pos |-> 0,
     last_error |-> "",
     result |-> [kind |-> "none", model_used |-> NoModel, error |-> ""],
     invoked |-> <<>>,
     index_at_call |-> 0]

\* the fields of a fresh client and the bookkeeping of a run not yet begun
InitFields ==
    /\ current_index = 0
    /\ simple_client = FreshSimpleClient
    /\ stats = [i \in KeyIndices |-> KeyStats]
    /\ request_timestamps = <<>>
    /\ has_yielded = [p \in Procs |-> FALSE]
    /\ fragments = [p \in Procs |-> <<>>]
    /\ rate_log = <<>>
    /\ queries = 0
    /\ reply = NoReply
    /\ now = 0
    /\ calls = 0
    /\ pc = [p \in Procs |-> "idle"]
    /\ models_to_try = [p \in Procs |-> <<>>]
    /\ cur = [p \in Procs |-> 0]
    /\ key_info = [p \in Procs |-> [key |-> 0, index |-> None]]
    /\ start_time = [p \in Procs |-> 0]
    /\ retries = [p \in Procs |-> 0]
    /\ wake = [p \in Procs |-> 0]
    /\ attempts = [p \in Procs |-> <<>>]
    /\ outcome = [p \in Procs |-> NoOutcome]
    /\ invCount = [p \in Procs |-> <<>>]
    /\ answers = [p \in Procs |-> <<>>]
    /\ delays = [p \in Procs |-> <<>>]
    /\ keys_used = [p \in Procs |-> {}]
    /\ selections = 0
    /\ selected = <<>>
    /\ records = 0

\* client.py:15-45 and 49-51: everything __init__ sets up but the monitor
InitBase ==
    /\ options \in OptionSpace
    /\ InitFields

\* The state after GemBack.__init__ (client.py:15-51), no call made yet.
Init ==
    /\ InitBase
    /\ health_data = <<>>
    /\ health_log = <<>>
    /\ seeded = 0

Max(a, b) == IF a >= b THEN a ELSE b
Zeros(n) == [i \in 1 .. n |-> 0]
Sum(sq) ==
    LET RECURSIVE Go(_)
        Go(i) == IF i = 0 THEN 0 ELSE sq[i] + Go(i - 1)
    IN  Go(Len(sq))

\* client.py:58-82  generate up to its first await: pick the models and the
\* credential, then start on the first model (or fail at once on an empty
\* order, client.py:118-121).
Generate(p, model) ==
    LET mtt == ModelsToTry(model, options.fallback_order)
        strategy == options.api_key_rotation_strategy
        ki == ApiKeyInfo(HasRotator, strategy, current_index, stats)
        st1 == IF HasRotator THEN TouchLastUsed(stats, ki.index, now)
               ELSE stats
    IN  /\ pc[p] \in {"idle", "done"}
        /\ calls < MaxCalls
        /\ calls' = calls + 1
        /\ models_to_try' = [models_to_try EXCEPT ![p] = mtt]
        /\ key_info' = [key_info EXCEPT ![p] = ki]
        /\ current_index' = IF HasRotator
                            THEN CursorAfterPick(strategy, current_index,
                                                 NumKeys)
                            ELSE current_index
        /\ selections' = IF HasRotator THEN selections + 1 ELSE selections
        /\ selected' = IF HasRotator THEN Append(selected, ki.index)
                       ELSE selected
        /\ attempts' = [attempts EXCEPT ![p] = <<>>]
        /\ retries' = [retries EXCEPT ![p] = 0]
        /\ start_time' = [start_time EXCEPT ![p] = now]
        /\ answers' = [answers EXCEPT ![p] = [i \in 1 .. Len(mtt) |-> NoAnswer]]
        /\ delays' = [delays EXCEPT ![p] = [i \in 1 .. Len(mtt) |-> <<>>]]
        /\ IF mtt = <<>>
           THEN /\ stats' = RotatorRecord(HasRotator, st1, ki, FALSE)
                /\ outcome' = [outcome EXCEPT ![p] = AllModelsFailed(<<>>)]
                /\ pc' = [pc EXCEPT ![p] = "done"]
                /\ cur' = [cur EXCEPT ![p] = 0]
                /\ invCount' = [invCount EXCEPT ![p] = <<>>]
                /\ keys_used' = [keys_used EXCEPT ![p] = {}]
                /\ UNCHANGED request_timestamps
           ELSE /\ stats' = st1
                /\ outcome' = [outcome EXCEPT ![p] = NoOutcome]
                /\ pc' = [pc EXCEPT ![p] = "invoking"]
                /\ cur' = [cur EXCEPT ![p] = 1]
                /\ invCount' = [invCount EXCEPT
                                  ![p] = [Zeros(Len(mtt)) EXCEPT ![1] = 1]]
                /\ keys_used' = [keys_used EXCEPT ![p] = {ki.key}]
                /\ request_timestamps' =
                       AttemptRate(options.enable_monitoring,
                                   request_timestamps, mtt[1], now)
        /\ UNCHANGED <<cfgVars, health_data, now, wake, records, auxVars>>

\* client.py:127-134, 84-93  the collaborator answers with a response
InvokeSucceeds(p, d) ==
    LET t == now + d
        m == models_to_try[p][cur[p]]
    IN  /\ pc[p] = "invoking"
        /\ now' = t
        /\ answers' = [answers EXCEPT ![p][cur[p]] = Ok]
        /\ health_data' = AttemptHealth(options.enable_monitoring, health_data,
                                        m, DurationMs(start_time[p], t), TRUE)
        /\ stats' = RotatorRecord(HasRotator, stats, key_info[p], TRUE)
        /\ outcome' = [outcome EXCEPT ![p] = Success(m)]
        /\ pc' = [pc EXCEPT ![p] = "done"]
        /\ UNCHANGED <<cfgVars, current_index, request_timestamps, calls,
                       models_to_try, cur, key_info, start_time, retries, wake,
                       attempts, invCount, delays, keys_used, selVars,
                       auxVars>>

\* client.py:135-153  the collaborator raises and the retry loop goes round:
\* the coroutine is parked in asyncio.sleep(delay)
InvokeRetries(p, e, d) ==
    LET t == now + d
        r == retries[p] + 1
        delay == BackoffDelay(options.retry_delay, r)
    IN  /\ pc[p] = "invoking"
        /\ ShouldRetry(e, retries[p], options.max_retries)
        /\ now' = t
        /\ answers' = [answers EXCEPT ![p][cur[p]] = e]
        /\ retries' = [retries EXCEPT ![p] = r]
        /\ delays' = [delays EXCEPT ![p][cur[p]] = Append(@, delay)]
        /\ wake' = [wake EXCEPT ![p] = t + delay]
        /\ pc' = [pc EXCEPT ![p] = "sleeping"]
        /\ UNCHANGED <<cfgVars, rotVars, monVars, calls, models_to_try, cur,
                       key_info, start_time, attempts, outcome, invCount,
                       keys_used, selVars, auxVars>>

\* client.py:152-153, 127  the sleep is over: invoke the same model again
BackoffElapsed(p) ==
    /\ pc[p] = "sleeping"
    /\ now' = Max(now, wake[p])
    /\ invCount' = [invCount EXCEPT ![p][cur[p]] = @ + 1]
    /\ keys_used' = [keys_used EXCEPT ![p] = @ \cup {key_info[p].key}]
    /\ pc' = [pc EXCEPT ![p] = "invoking"]
    /\ UNCHANGED <<cfgVars, rotVars, monVars, calls, models_to_try, cur,
                   key_info, start_time, retries, wake, attempts, outcome,
                   answers, delays, selVars, auxVars>>

\* client.py:135-155, 95-121  the collaborator raises and the error leaves the
\* retry loop: record the attempt, then abort on 401/403, start on the next
\* model, or give up after the last one
HandleFailure(p, e, t) ==
    LET pos == cur[p]
        mtt == models_to_try[p]
        m == mtt[pos]
        sc == StatusOf(e)
        att == Append(attempts[p], AttemptRecord(m, e, t))
    IN  /\ now' = t
        /\ answers' = [answers EXCEPT ![p][pos] = e]
        /\ health_data' = AttemptHealth(options.enable_monitoring, health_data,
                                        m, DurationMs(start_time[p], t), FALSE)
        /\ attempts' = [attempts EXCEPT ![p] = att]
        /\ IF IsAuthStatus(sc)
           THEN /\ stats' = RotatorRecord(HasRotator, stats, key_info[p], FALSE)
                /\ outcome' = [outcome EXCEPT ![p] = AuthError(att, sc, m)]
                /\ pc' = [pc EXCEPT ![p] = "done"]
                /\ UNCHANGED <<request_timestamps, cur, start_time, retries,
                               invCount, keys_used>>
           ELSE IF pos < Len(mtt)
           THEN /\ request_timestamps' =
                       AttemptRate(options.enable_monitoring,
                                   request_timestamps, mtt[pos + 1], t)
                /\ cur' = [cur EXCEPT ![p] = pos + 1]
                /\ start_time' = [start_time EXCEPT ![p] = t]
                /\ retries' = [retries EXCEPT ![p] = 0]
                /\ invCount' = [invCount EXCEPT ![p][pos + 1] = @ + 1]
                /\ keys_used' = [keys_used EXCEPT
                                   ![p] = @ \cup {key_info[p].key}]
                /\ UNCHANGED <<stats, outcome, pc>>
           ELSE /\ stats' = RotatorRecord(HasRotator, stats, key_info[p], FALSE)
                /\ outcome' = [outcome EXCEPT ![p] = AllModelsFailed(att)]
                /\ pc' = [pc EXCEPT ![p] = "done"]
                /\ UNCHANGED <<request_timestamps, cur, start_time, retries,
                               invCount, keys_used>>
        /\ UNCHANGED <<cfgVars, current_index, calls, models_to_try, key_info,
                       wake, delays, selVars, auxVars>>

InvokeFails(p, e, d) ==
    /\ pc[p] = "invoking"
    /\ ~ShouldRetry(e, retries[p], options.max_retries)
    /\ HandleFailure(p, e, now + d)

\* asyncio.CancelledError, thrown into the coroutine at the await where it is
\* parked when the caller cancels it
Cancelled == Err(None, None, "CancelledError")

\* client.py:95, 135  "except Exception": asyncio.CancelledError derives
\* from BaseException, every collaborator error from Exception
CaughtAnyThrowable(e) == TRUE
CaughtByExceptException(e) == e # Cancelled

\* CancelledError raised at client.py:127 (the collaborator call) or at
\* client.py:153 (asyncio.sleep): neither handler catches it, no finally
\* block runs, and it leaves generate to the caller.
Cancel(p) ==
    /\ pc[p] \in {"invoking", "sleeping"}
    /\ IF CaughtByExceptException(Cancelled)
       THEN HandleFailure(p, Cancelled, now)
       ELSE /\ answers' = [answers EXCEPT ![p][cur[p]] = Cancelled]
            /\ outcome' = [outcome EXCEPT
                              ![p] = [kind |-> "CANCELLED", model |-> NoModel,
                                      attempts |-> <<>>, status_code |-> None]]
            /\ pc' = [pc EXCEPT ![p] = "done"]
            /\ UNCHANGED <<cfgVars, rotVars, monVars, now, calls,
                           models_to_try, cur, key_info, start_time, retries,
                           wake, attempts, invCount, delays, keys_used,
                           selVars, auxVars>>

Latencies == 1 .. MaxLatency

\* One coroutine at a time: a caller that awaits each generate call before
\* making the next one.
Next ==
    \/ \E model \in Models \cup {NoModel} : Generate(1, model)
    \/ \E d \in Latencies : InvokeSucceeds(1, d)
    \/ \E e \in Errors, d \in Latencies : InvokeRetries(1, e, d)
    \/ BackoffElapsed(1)
    \/ \E e \in Errors, d \in Latencies : InvokeFails(1, e, d)

Spec == Init /\ [][Next]_vars

\* The collaborator always answers and asyncio always wakes a sleeper: a
\* coroutine parked at an await is resumed.
Resume(p) ==
    \/ \E d \in Latencies : InvokeSucceeds(p, d)
    \/ \E e \in Errors, d \in Latencies : InvokeRetries(p, e, d)
    \/ BackoffElapsed(p)
    \/ \E e \in Errors, d \in Latencies : InvokeFails(p, e, d)

\* Termination of a call does not depend on the rotation strategy or on the
\* base delay: the fair behaviours are explored for round-robin clients of
\* one or two keys with a base delay of one second.
InitFair ==
    /\ Init
    /\ options.num_keys <= 2
    /\ options.api_key_rotation_strategy = "round-robin"
    /\ options.retry_delay = 1

FairSpec == InitFair /\ [][Next]_vars /\ WF_vars(Resume(1))

\* ------------------------------------------- GemBack.generate_stream
\* client.py:172-173  the stream loop records the request, with no prediction
StreamRate(mon, rts, m, t) == IF mon THEN RateRecordRequest(rts, m, t) ELSE rts

\* client.py:201  AttemptRecord(current_model, str(e), time.time())
StreamAttemptRecord(m, e, t) ==
    [model |-> m, error |-> e.text, timestamp |-> t, status_code |-> None]

\* client.py:193  the generator returns after a model that yielded
StreamReturn(m) == [kind |-> "STREAM_END", model |-> m, attempts |-> <<>>,
                    status_code |-> None]
\* the consumer closed the generator at a yield (GeneratorExit)
StreamClosed == [kind |-> "CLOSED", model |-> NoModel, attempts |-> <<>>,
                 status_code |-> None]

\* client.py:162-177  generate_stream up to its first await
GenerateStream(p, model) ==
    LET mtt == ModelsToTry(model, options.fallback_order)
        strategy == options.api_key_rotation_strategy
        ki == ApiKeyInfo(HasRotator, strategy, current_index, stats)
    IN  /\ pc[p] \in {"idle", "done"}
        /\ calls < MaxCalls
        /\ calls' = calls + 1
        /\ models_to_try' = [models_to_try EXCEPT ![p] = mtt]
        /\ key_info' = [key_info EXCEPT ![p] = ki]
        /\ current_index' = IF HasRotator
                            THEN CursorAfterPick(strategy, current_index,
                                                 NumKeys)
                            ELSE current_index
        /\ stats' = IF HasRotator THEN TouchLastUsed(stats, ki.index, now)
                    ELSE stats
        /\ selections' = IF HasRotator THEN selections + 1 ELSE selections
        /\ selected' = IF HasRotator THEN Append(selected, ki.index)
                       ELSE selected
        /\ attempts' = [attempts EXCEPT ![p] = <<>>]
        /\ start_time' = [start_time EXCEPT ![p] = now]
        /\ answers' = [answers EXCEPT ![p] = [i \in 1 .. Len(mtt) |-> NoAnswer]]
        /\ delays' = [delays EXCEPT ![p] = [i \in 1 .. Len(mtt) |-> <<>>]]
        /\ fragments' = [fragments EXCEPT ![p] = Zeros(Len(mtt))]
        /\ IF mtt = <<>>
           THEN /\ outcome' = [outcome EXCEPT ![p] = AllModelsFailed(<<>>)]
                /\ pc' = [pc EXCEPT ![p] = "done"]
                /\ cur' = [cur EXCEPT ![p] = 0]
                /\ invCount' = [invCount EXCEPT ![p] = <<>>]
                /\ keys_used' = [keys_used EXCEPT ![p] = {}]
                /\ UNCHANGED request_timestamps
           ELSE /\ outcome' = [outcome EXCEPT ![p] = NoOutcome]
                /\ pc' = [pc EXCEPT ![p] = "opening"]
                /\ cur' = [cur EXCEPT ![p] = 1]
                /\ invCount' = [invCount EXCEPT
                                  ![p] = [Zeros(Len(mtt)) EXCEPT ![1] = 1]]
                /\ keys_used' = [keys_used EXCEPT ![p] = {ki.key}]
                /\ request_timestamps' =
                       StreamRate(options.enable_monitoring,
                                  request_timestamps, mtt[1], now)
        /\ UNCHANGED <<cfgVars, health_data, now, retries, wake, records,
                       has_yielded, rate_log, health_log, queries, reply,
                       seeded>>

\* client.py:177-183  the collaborator hands over the stream
StreamOpens(p, d) ==
    /\ pc[p] = "opening"
    /\ now' = now + d
    /\ has_yielded' = [has_yielded EXCEPT ![p] = FALSE]
    /\ pc' = [pc EXCEPT ![p] = "streaming"]
    /\ UNCHANGED <<cfgVars, rotVars, monVars, calls, models_to_try, cur,
                   key_info, start_time, retries, wake, attempts, outcome,
                   histVars, selVars, fragments, rate_log, health_log,
                   queries, reply, seeded>>

\* client.py:184-186  a chunk arrives and its text is yielded to the consumer
StreamChunk(p, d) ==
    /\ pc[p] = "streaming"
    /\ fragments[p][cur[p]] < MaxChunks
    /\ now' = now + d
    /\ has_yielded' = [has_yielded EXCEPT ![p] = TRUE]
    /\ fragments' = [fragments EXCEPT ![p][cur[p]] = @ + 1]
    /\ UNCHANGED <<cfgVars, rotVars, monVars, calls, pc, models_to_try, cur,
                   key_info, start_time, retries, wake, attempts, outcome,
                   histVars, selVars, rate_log, health_log, queries, reply,
                   seeded>>

\* client.py:169-177, 203  the loop moves on from position pos at time t: the
\* next model is recorded and opened, or the call raises ALL_MODELS_FAILED
StreamMovesOn(p, pos, att, t) ==
    LET mtt == models_to_try[p]
    IN  IF pos < Len(mtt)
        THEN /\ request_timestamps' =
                    StreamRate(options.enable_monitoring, request_timestamps,
                               mtt[pos + 1], t)
             /\ cur' = [cur EXCEPT ![p] = pos + 1]
             /\ start_time' = [start_time EXCEPT ![p] = t]
             /\ invCount' = [invCount EXCEPT ![p][pos + 1] = @ + 1]
             /\ keys_used' = [keys_used EXCEPT ![p] = @ \cup {key_info[p].key}]
             /\ pc' = [pc EXCEPT ![p] = "opening"]
             /\ UNCHANGED outcome
        ELSE /\ outcome' = [outcome EXCEPT ![p] = AllModelsFailed(att)]
             /\ pc' = [pc EXCEPT ![p] = "done"]
             /\ UNCHANGED <<request_timestamps, cur, start_time, invCount,
                            keys_used>>

\* a stream end that is booked as a success whether or not anything came
StreamEndHealthAlways(mon, hd, m, ms, yielded) ==
    AttemptHealth(mon, hd, m, ms, TRUE)

\* client.py:188-191  a stream that ended is a success only if it yielded
StreamEndHealth(mon, hd, m, ms, yielded) ==
    IF yielded THEN AttemptHealth(mon, hd, m, ms, TRUE) ELSE hd

\* client.py:184, 188-193  the stream ends normally
StreamEnds(p, d) ==
    LET t == now + d
        pos == cur[p]
        m == models_to_try[p][pos]
    IN  /\ pc[p] = "streaming"
        /\ now' = t
        /\ answers' = [answers EXCEPT ![p][pos] = Ok]
        /\ health_data' = StreamEndHealth(options.enable_monitoring,
                                          health_data, m,
                                          DurationMs(start_time[p], t),
                                          has_yielded[p])
        /\ IF has_yielded[p]
           THEN /\ outcome' = [outcome EXCEPT ![p] = StreamReturn(m)]
                /\ pc' = [pc EXCEPT ![p] = "done"]
                /\ UNCHANGED <<request_timestamps, cur, start_time, invCount,
                               keys_used>>
           ELSE StreamMovesOn(p, pos, attempts[p], t)
        /\ UNCHANGED <<cfgVars, rotVars, calls, models_to_try, key_info,
                       retries, wake, attempts, delays, selVars, auxVars>>

\* client.py:177, 184, 195-201  opening the stream or reading it raises
StreamFails(p, e, d) ==
    LET t == now + d
        pos == cur[p]
        m == models_to_try[p][pos]
        att == Append(attempts[p], StreamAttemptRecord(m, e, t))
    IN  /\ pc[p] \in {"opening", "streaming"}
        /\ now' = t
        /\ answers' = [answers EXCEPT ![p][pos] = e]
        /\ health_data' = AttemptHealth(options.enable_monitoring, health_data,
                                        m, DurationMs(start_time[p], t), FALSE)
        /\ attempts' = [attempts EXCEPT ![p] = att]
        /\ StreamMovesOn(p, pos, att, t)
        /\ UNCHANGED <<cfgVars, rotVars, calls, models_to_try, key_info,
                       retries, wake, delays, selVars, auxVars>>

\* client.py:186  the consumer closes the generator while it is parked at
\* the yield: GeneratorExit is no Exception, nothing is recorded
ConsumerCloses(p) ==
    /\ pc[p] = "streaming"
    /\ has_yielded[p]
    /\ outcome' = [outcome EXCEPT ![p] = StreamClosed]
    /\ pc' = [pc EXCEPT ![p] = "done"]
    /\ UNCHANGED <<cfgVars, rotVars, monVars, now, calls, models_to_try, cur,
                   key_info, start_time, retries, wake, attempts, histVars,
                   selVars, auxVars>>

\* A client with retries configured whose caller consumes one stream at a
\* time.
InitStream ==
    /\ Init
    /\ options.max_retries = MaxRetries
    /\ options.retry_delay = 1

NextStream ==
    \/ \E model \in Models \cup {NoModel} : GenerateStream(1, model)
    \/ \E d \in Latencies : StreamOpens(1, d)
    \/ \E d \in Latencies : StreamChunk(1, d)
    \/ \E d \in Latencies : StreamEnds(1, d)
    \/ \E e \in Errors, d \in Latencies : StreamFails(1, e, d)
    \/ ConsumerCloses(1)

SpecStream == InitStream /\ [][NextStream]_vars

\* ------------------------------------------ ApiKeyRotator used on its own
\* rotators.py:23-38
GetNextKey ==
    LET strategy == options.api_key_rotation_strategy
        i == PickIndex(strategy, current_index, stats)
    IN  /\ selections < MaxSelections
        /\ current_index' = CursorAfterPick(strategy, current_index, NumKeys)
        /\ stats' = TouchLastUsed(stats, i, now)
        /\ selections' = selections + 1
        /\ selected' = Append(selected, i)
        /\ now' = now + 1
        /\ UNCHANGED <<cfgVars, monVars, calls, callVars, histVars, records,
                       auxVars>>

\* rotators.py:40-43  (an index outside the stats is ignored)
RecordSuccess(i) ==
    /\ records < MaxRecords
    /\ records' = records + 1
    /\ stats' = record_success(stats, i)
    /\ UNCHANGED <<cfgVars, current_index, monVars, now, calls, callVars,
                   histVars, selections, selected, auxVars>>

\* rotators.py:45-48
RecordFailure(i) ==
    /\ records < MaxRecords
    /\ records' = records + 1
    /\ stats' = record_failure(stats, i)
    /\ UNCHANGED <<cfgVars, current_index, monVars, now, calls, callVars,
                   histVars, selections, selected, auxVars>>

\* A rotator built directly from a key list and a strategy (rotators.py:15-21).
InitRot ==
    /\ Init
    /\ options.fallback_order = <<>>
    /\ options.max_retries = 0
    /\ options.retry_delay = 1
    /\ ~options.enable_monitoring

NextRot ==
    \/ GetNextKey
    \/ \E i \in 0 .. NumKeys : RecordSuccess(i)
    \/ \E i \in 0 .. NumKeys : RecordFailure(i)

SpecRot == InitRot /\ [][NextRot]_vars

\* ------------------------------------------------ construction, any key list
\* The key list handed to a constructor may be empty.
BuildSpace ==
    [num_keys : 0 .. MaxKeys,
     api_key_rotation_strategy : Strategies,
     fallback_order : {<<>>},
     max_retries : {0},
     retry_delay : {1},
     enable_monitoring : {FALSE}]

Built(class) == [op |-> "built", model |-> class, at |-> 0, value |-> 0]
ConstructionFailed(class) ==
    [op |-> "construction_failed", model |-> class, at |-> 0, value |-> 0]

\* an object of the class exists: its constructor returned
Exists(class) ==
    reply.model = class /\ reply.op \in {"built", "get_next_key_failed"}

\* rotators.py:15-21  ApiKeyRotator(api_keys, strategy): any list is stored
ConstructRotator ==
    /\ reply.op = "none"
    /\ current_index' = 0
    /\ stats' = [i \in KeyIndices |-> KeyStats]
    /\ reply' = Built("ApiKeyRotator")
    /\ UNCHANGED <<cfgVars, monVars, now, calls, callVars, histVars, selVars,
                   has_yielded, fragments, rate_log, health_log, queries,
                   seeded>>

\* python/gemback/client.py:31-33  GemBack(api_keys=[...]): ValueError when
\* neither api_key nor api_keys is given
ConstructGemBack ==
    /\ reply.op = "none"
    /\ reply' = IF NumKeys = 0 THEN ConstructionFailed("GemBack")
                ELSE Built("GemBack")
    /\ UNCHANGED <<cfgVars, rotVars, monVars, now, calls, callVars, histVars,
                   selVars, has_yielded, fragments, rate_log, health_log,
                   queries, seeded>>

\* src/client.py:40-44  GemBackClient(config): ValueError on an empty list
ConstructGemBackClient ==
    /\ reply.op = "none"
    /\ reply' = IF NumKeys = 0 THEN ConstructionFailed("GemBackClient")
                ELSE Built("GemBackClient")
    /\ UNCHANGED <<cfgVars, rotVars, monVars, now, calls, callVars, histVars,
                   selVars, has_yielded, fragments, rate_log, health_log,
                   queries, seeded>>

\* rotators.py:24-25  get_next_key on a rotator without keys: ValueError
GetNextKeyNoKeys ==
    /\ NumKeys = 0
    /\ reply' = [op |-> "get_next_key_failed", model |-> "ApiKeyRotator",
                 at |-> now, value |-> 0]
    /\ UNCHANGED <<cfgVars, rotVars, monVars, now, calls, callVars, histVars,
                   selVars, has_yielded, fragments, rate_log, health_log,
                   queries, seeded>>

InitBuild ==
    /\ options \in BuildSpace
    /\ InitFields
    /\ health_data = <<>>
    /\ health_log = <<>>
    /\ seeded = 0

\* One object is constructed; a rotator that got built is then used.
NextBuild ==
    \/ ConstructRotator
    \/ ConstructGemBack
    \/ ConstructGemBackClient
    \/ Exists("ApiKeyRotator") /\ NumKeys > 0 /\ GetNextKey
    \/ Exists("ApiKeyRotator") /\ GetNextKeyNoKeys
    \/ \E i \in 0 .. NumKeys : Exists("ApiKeyRotator") /\ RecordSuccess(i)
    \/ \E i \in 0 .. NumKeys : Exists("ApiKeyRotator") /\ RecordFailure(i)

SpecBuild == InitBuild /\ [][NextBuild]_vars

\* -------------------------------------------- GemBackClient (src/client.py)
\* src/client.py:34  fallback_order or ["gemini-pro", "gemini-flash"]
ConfigFallbackOrder(order) ==
    IF order = <<>> THEN <<"gemini-pro", "gemini-flash">> ELSE order

\* the key list always handed over in storage order
UnrotatedKeys(n, idx) == [j \in 1 .. n |-> j - 1]
\* src/client.py:53-55  api_keys[idx:] + api_keys[:idx], keys named by index
RotatedKeys(n, idx) == [j \in 1 .. n |-> (idx + j - 1) % n]

\* what one generate_content call of the SDK does: a response, a response
\* without parts that carries prompt_feedback, or an exception
SimpleAnswers ==
    {"response", "blocked", "ResourceExhausted", "ServiceUnavailable",
     "Exception"}

\* src/client.py:46-51  _get_next_key()
SimpleGetNextKey ==
    /\ simple_client.pc \in {"idle", "done"}
    /\ selections < MaxSelections
    /\ selections' = selections + 1
    /\ simple_client' =
           [simple_client EXCEPT
              !.current_key_index = (@ + 1) % NumKeys]
    /\ UNCHANGED <<options, rotVars, monVars, now, calls, callVars, histVars,
                   selected, records, auxVars>>

\* src/client.py:57-88  generate_content up to the first SDK call
SimpleGenerateContent(model) ==
    LET mtt == IF model # NoModel THEN <<model>>
               ELSE ConfigFallbackOrder(options.fallback_order)
    IN  /\ simple_client.pc \in {"idle", "done"}
        /\ calls < MaxCalls
        /\ calls' = calls + 1
        /\ simple_client' =
               [simple_client EXCEPT
                  !.pc = "invoking",
                  !.models_to_try = mtt,
                  !.model_pos = 1,
                  !.keys_to_try =
                      RotatedKeys(NumKeys, simple_client.current_key_index),
                  !.key_pos = 1,
                  !.last_error = "",
                  !.result = FreshSimpleClient.result,
                  !.invoked = <<>>,
                  !.index_at_call = simple_client.current_key_index]
        /\ UNCHANGED <<options, rotVars, monVars, now, callVars, histVars,
                       selVars, auxVars>>

\* src/client.py:81-88, 147-150  the key loop of a model is left: start on
\* the next model with a fresh rotated key list, or raise last_error
SimpleNextModel(sc) ==
    IF sc.model_pos < Len(sc.models_to_try)
    THEN [sc EXCEPT !.model_pos = @ + 1,
                    !.keys_to_try = RotatedKeys(NumKeys, sc.current_key_index),
                    !.key_pos = 1]
    ELSE [sc EXCEPT !.pc = "done",
                    !.result = [kind |-> "raised", model_used |-> NoModel,
                                error |-> sc.last_error]]

\* src/client.py:128-145  "continue": the next key of the same model, or the
\* end of the key loop
SimpleNextKey(sc) ==
    IF sc.key_pos < Len(sc.keys_to_try)
    THEN [sc EXCEPT !.key_pos = @ + 1]
    ELSE SimpleNextModel(sc)

\* src/client.py:89-145  one SDK call and what follows from its answer
SimpleInvoke(answer) ==
    LET sc == simple_client
        entry == [pos |-> sc.model_pos, key |-> sc.keys_to_try[sc.key_pos],
                  answer |-> answer]
        called == [sc EXCEPT !.invoked = Append(@, entry)]
    IN  /\ sc.pc = "invoking"
        /\ simple_client' =
               CASE answer = "response" ->
                        [called EXCEPT
                           !.pc = "done",
                           !.result =
                               [kind |-> "output",
                                model_used |-> sc.models_to_try[sc.model_pos],
                                error |-> ""]]
                 [] answer = "blocked" ->
                        SimpleNextModel([called EXCEPT
                                           !.last_error = "Safety Block"])
                 [] OTHER ->
                        SimpleNextKey([called EXCEPT !.last_error = answer])
        /\ now' = IF answer = "ServiceUnavailable"
                  THEN now + options.retry_delay ELSE now
        /\ UNCHANGED <<options, rotVars, monVars, calls, callVars, histVars,
                       selVars, auxVars>>

\* GemBackConfig(api_keys, fallback_order): one to MaxKeys distinct keys and
\* a list of distinct models, possibly left out.
InitSimple ==
    /\ Init
    /\ options.api_key_rotation_strategy = "round-robin"
    /\ options.max_retries = 0
    /\ options.retry_delay = 1
    /\ ~options.enable_monitoring

NextSimple ==
    \/ SimpleGetNextKey
    \/ \E model \in Models \cup {NoModel} : SimpleGenerateContent(model)
    \/ \E answer \in SimpleAnswers : SimpleInvoke(answer)

SpecSimple == InitSimple /\ [][NextSimple]_vars

\* ---------------------------------------- RateLimitTracker used on its own
\* the clock readings at which the tracker is used: both sides of the
\* 60-second and of the 300-second horizon, measured from 0, 1, 60 and 240
Instants == {0, 1, 59, 60, 61, 240, 299, 300, 301, 360}

LogOf(log, m) == IF m \in DOMAIN log THEN log[m] ELSE <<>>
LogAppend(log, m, x) ==
    [y \in DOMAIN log \cup {m} |->
        IF y = m THEN Append(LogOf(log, m), x) ELSE log[y]]
LogSize(log) ==
    LET RECURSIVE Go(_)
        Go(S) == IF S = {} THEN 0
                 ELSE LET m == CHOOSE x \in S : TRUE
                      IN  Len(log[m]) + Go(S \ {m})
    IN  Go(DOMAIN log)

\* time.time() moves on between two uses of the tracker
Advance(t) ==
    /\ t \in Instants
    /\ t > now
    /\ now' = t
    /\ UNCHANGED <<cfgVars, rotVars, monVars, calls, callVars, histVars,
                   selVars, auxVars>>

\* rate_limit.py:33-40  record_request(model)
TrackerRecord(m) ==
    /\ LogSize(rate_log) < MaxRateRecords
    /\ request_timestamps' = RateRecordRequest(request_timestamps, m, now)
    /\ rate_log' = LogAppend(rate_log, m, now)
    /\ UNCHANGED <<cfgVars, rotVars, health_data, now, calls, callVars,
                   histVars, selVars, has_yielded, fragments, health_log,
                   queries, reply, seeded>>

\* rate_limit.py:49-73  get_status(model): prunes, then counts
TrackerStatus(m) ==
    /\ queries < MaxQueries
    /\ queries' = queries + 1
    /\ request_timestamps' = StatusCleanup(request_timestamps, m, now)
    /\ reply' = [op |-> "status", model |-> m, at |-> now,
                 value |-> GetStatus(request_timestamps, m, now)]
    /\ UNCHANGED <<cfgVars, rotVars, health_data, now, calls, callVars,
                   histVars, selVars, has_yielded, fragments, rate_log,
                   health_log, seeded>>

\* rate_limit.py:79-103  get_recommended_wait_time(model)
TrackerWait(m) ==
    /\ queries < MaxQueries
    /\ queries' = queries + 1
    /\ request_timestamps' = StatusCleanup(request_timestamps, m, now)
    /\ reply' = [op |-> "wait", model |-> m, at |-> now,
                 value |-> RecommendedWaitMs(request_timestamps, m, now)]
    /\ UNCHANGED <<cfgVars, rotVars, health_data, now, calls, callVars,
                   histVars, selVars, has_yielded, fragments, rate_log,
                   health_log, seeded>>

\* A tracker built on its own (rate_limit.py:22-31).
InitRate ==
    /\ Init
    /\ options.num_keys = 1
    /\ options.api_key_rotation_strategy = "round-robin"
    /\ options.fallback_order = <<>>
    /\ options.max_retries = 0
    /\ options.retry_delay = 1
    /\ options.enable_monitoring

NextRate ==
    \/ \E t \in Instants : Advance(t)
    \/ \E m \in Models : TrackerRecord(m)
    \/ \E m \in Models : TrackerStatus(m)
    \/ \E m \in Models : TrackerWait(m)

SpecRate == InitRate /\ [][NextRate]_vars

\* ------------------------------------------- HealthMonitor used on its own
\* how many successful requests the monitor has seen for SeedModel when the
\* behaviour starts, and the latencies (ms) of the requests recorded after
PriorCounts == {0, 1, 3, 4, 18, 19, 20, 57, 99, 100}
HealthLatencies == {100, 5000, 6000}
SeedModel == "gemini-2.5-flash"
SeedSample(i) == [ms |-> ((i - 1) % 4) + 1, success |-> TRUE]

\* health.py:33-54  record_request called for the samples lo .. hi of log in
\* turn (the first half, then the second)
RECURSIVE Replay(_, _, _, _, _)
Replay(hd, m, log, lo, hi) ==
    IF lo > hi THEN hd
    ELSE IF lo = hi
    THEN HealthRecordRequest(hd, m, log[lo].ms, log[lo].success)
    ELSE LET mid == (lo + hi) \div 2
             first == Replay(hd, m, log, lo, mid)
         IN  IF m \in DOMAIN first
             THEN Replay(first, m, log, mid + 1, hi)
             ELSE first

\* health.py:33-54  record_request(model, response_time_ms, success)
MonitorRecord(m, ms, success) ==
    /\ LogSize(health_log) - seeded < MaxHealthRecords
    /\ health_data' = HealthRecordRequest(health_data, m, ms, success)
    /\ health_log' = LogAppend(health_log, m, [ms |-> ms, success |-> success])
    /\ UNCHANGED <<cfgVars, rotVars, request_timestamps, now, calls, callVars,
                   histVars, selVars, has_yielded, fragments, rate_log,
                   queries, reply, seeded>>

\* health.py:56-94  get_health(model): reads only
MonitorHealth(m) ==
    /\ queries < MaxQueries
    /\ queries' = queries + 1
    /\ reply' = [op |-> "health", model |-> m, at |-> now,
                 value |-> GetHealth(health_data, m)]
    /\ UNCHANGED <<cfgVars, rotVars, monVars, now, calls, callVars, histVars,
                   selVars, has_yielded, fragments, rate_log, health_log,
                   seeded>>

\* A monitor (health.py:24-31) that has recorded h successful requests.
InitHealth ==
    /\ InitBase
    /\ options.num_keys = 1
    /\ options.api_key_rotation_strategy = "round-robin"
    /\ options.fallback_order = <<>>
    /\ options.max_retries = 0
    /\ options.retry_delay = 1
    /\ options.enable_monitoring
    /\ \E h \in PriorCounts :
           LET log == [i \in 1 .. h |-> SeedSample(i)]
           IN  /\ seeded = h
               /\ health_log = IF h = 0 THEN <<>>
                                ELSE [m \in {SeedModel} |-> log]
               /\ health_data = IF h = 0 THEN <<>>
                                 ELSE Replay(<<>>, SeedModel, log, 1, h)

NextHealth ==
    \/ \E m \in Models, ms \in HealthLatencies, success \in BOOLEAN :
           MonitorRecord(m, ms, success)
    \/ \E m \in Models : MonitorHealth(m)

SpecHealth == InitHealth /\ [][NextHealth]_vars

\* ------------------------------- generate on a tracker that is already busy
\* A monitored client whose tracker (self.rate_limit_tracker) also receives
\* record_request calls from its caller, before and between generate calls.
InitAdvisory ==
    /\ Init
    /\ options.num_keys = 1
    /\ options.api_key_rotation_strategy = "round-robin"
    /\ options.fallback_order = <<"gemini-2.5-flash", "gemini-1.5-pro">>
    /\ options.max_retries = 1
    /\ options.retry_delay = 1
    /\ options.enable_monitoring

NextAdvisory ==
    \/ \E model \in Models \cup {NoModel} : Generate(1, model)
    \/ \E d \in Latencies : InvokeSucceeds(1, d)
    \/ \E e \in Errors, d \in Latencies : InvokeRetries(1, e, d)
    \/ BackoffElapsed(1)
    \/ \E e \in Errors, d \in Latencies : InvokeFails(1, e, d)
    \/ \E m \in Models : pc[1] \in {"idle", "done"} /\ TrackerRecord(m)

SpecAdvisory == InitAdvisory /\ [][NextAdvisory]_vars

\* --------------------------------------------- GemBack.get_fallback_stats
RECURSIVE CleanupEach(_, _, _, _)
\* client.py:214-216  get_status for each model of the list, in order
CleanupEach(rts, order, i, t) ==
    IF i > Len(order) THEN rts
    ELSE CleanupEach(StatusCleanup(rts, order[i], t), order, i + 1, t)

\* client.py:205-227  the dictionary get_fallback_stats returns
FallbackStats(rot, st, mon, rts, hd, order, t) ==
    [apiKeyStats |-> IF rot THEN st ELSE <<>>,
     monitoring |->
         IF mon
         THEN [rateLimitStatus |->
                   [i \in 1 .. Len(order) |-> GetStatus(rts, order[i], t)],
               modelHealth |->
                   [i \in 1 .. Len(order) |-> GetHealth(hd, order[i])]]
         ELSE <<>>]

\* client.py:205-227  get_fallback_stats(): synchronous, runs between any
\* two steps of the calls in flight
GetFallbackStats ==
    /\ queries < MaxQueries
    /\ queries' = queries + 1
    /\ request_timestamps' =
           IF options.enable_monitoring
           THEN CleanupEach(request_timestamps, options.fallback_order, 1, now)
           ELSE request_timestamps
    /\ reply' = [op |-> "stats", model |-> NoModel, at |-> now,
                 value |-> FallbackStats(HasRotator, stats,
                                         options.enable_monitoring,
                                         request_timestamps, health_data,
                                         options.fallback_order, now)]
    /\ UNCHANGED <<cfgVars, rotVars, health_data, now, calls, callVars,
                   histVars, selVars, has_yielded, fragments, rate_log,
                   health_log, seeded>>

\* A monitored client with two credentials whose caller asks for the
\* statistics at any moment, minutes apart or in the middle of a call.
InitStats ==
    /\ Init
    /\ options.num_keys = 2
    /\ options.api_key_rotation_strategy = "round-robin"
    /\ options.fallback_order = <<"gemini-2.5-flash", "gemini-1.5-pro">>
    /\ options.max_retries = 1
    /\ options.retry_delay = 1
    /\ options.enable_monitoring

NextStats ==
    \/ \E model \in Models \cup {NoModel} : Generate(1, model)
    \/ \E d \in Latencies : InvokeSucceeds(1, d)
    \/ \E e \in Errors, d \in Latencies : InvokeRetries(1, e, d)
    \/ BackoffElapsed(1)
    \/ \E e \in Errors, d \in Latencies : InvokeFails(1, e, d)
    \/ Advance(WindowSecs + MinuteSecs)
    \/ GetFallbackStats

SpecStats == InitStats /\ [][NextStats]_vars

\* ------------------------------------ concurrent generate calls, one client
\* asyncio runs the coroutines of one client on one thread: each runs from
\* one await to the next without interruption, and at an await (the
\* collaborator call, asyncio.sleep) any other coroutine may run.
InitConc ==
    /\ Init
    /\ options.num_keys = 2
    /\ options.api_key_rotation_strategy = "round-robin"
    /\ options.fallback_order = <<"gemini-2.5-flash", "gemini-1.5-pro">>
    /\ options.max_retries = 1
    /\ options.retry_delay = 1
    /\ options.enable_monitoring

\* The collaborator's failures here: a transient one, a lasting one and a
\* rejected credential.
ConcErrors ==
    { Err(None, 503, "Server error"),
      Err(None, None, "Fail"),
      Err(401, None, "Unauthorized") }

\* Each coroutine makes one generate call.
NextConc ==
    \E p \in Procs :
        \/ \E model \in Models \cup {NoModel} :
               pc[p] = "idle" /\ Generate(p, model)
        \/ \E d \in Latencies : InvokeSucceeds(p, d)
        \/ \E e \in ConcErrors, d \in Latencies : InvokeRetries(p, e, d)
        \/ BackoffElapsed(p)
        \/ \E e \in ConcErrors, d \in Latencies : InvokeFails(p, e, d)

SpecConc == InitConc /\ [][NextConc]_vars

\* ------------------------------------------- generate calls that get cancelled
InitCancel ==
    /\ Init
    /\ options.num_keys = 2
    /\ Len(options.fallback_order) = 2
    /\ options.max_retries = 1
    /\ options.retry_delay = 1
    /\ options.enable_monitoring

NextCancel ==
    \/ \E model \in Models \cup {NoModel} : Generate(1, model)
    \/ \E d \in Latencies : InvokeSucceeds(1, d)
    \/ \E e \in Errors, d \in Latencies : InvokeRetries(1, e, d)
    \/ BackoffElapsed(1)
    \/ \E e \in Errors, d \in Latencies : InvokeFails(1, e, d)
    \/ Cancel(1)

SpecCancel == InitCancel /\ [][NextCancel]_vars

\* ================================================================== claims
Positions(p) == 1 .. Len(models_to_try[p])
Pending(p, pos) == cur[p] = pos /\ pc[p] \in {"invoking", "sleeping"}
IsAuthAnswer(a) == ~a.ok /\ a # NoAnswer /\ IsAuthStatus(StatusOf(a))
IsRateLimitAnswer(a) == ~a.ok /\ StatusOf(a) = RateLimitStatus
\* the spec's TransientError: 5xx, or a text naming a timeout or a connection
IsTransientAnswer(a) ==
    /\ a \in Errors
    /\ (StatusOf(a) >= ServerErrorFloor \/ MentionsTransient(a.text))
    /\ StatusOf(a) # RateLimitStatus
    /\ ~IsAuthStatus(StatusOf(a))

C2_AuthAbortsTheCall ==
    \A p \in Procs : \A pos \in Positions(p) :
        IsAuthAnswer(answers[p][pos]) =>
            /\ pc[p] = "done"
            /\ outcome[p].kind = "AUTH_ERROR"
            /\ outcome[p].attempts = attempts[p]
            /\ Len(attempts[p]) = pos
            /\ \A q \in Positions(p) : q > pos => invCount[p][q] = 0

\* C3 (as claimed): after a 401/403 answer the retry loop neither sleeps nor
\* invokes the collaborator again for that model.
C3_AuthNeverRetried ==
    \A p \in Procs : \A pos \in Positions(p) :
        IsAuthAnswer(answers[p][pos]) => ~Pending(p, pos)

\* C4: a 429 answer is never retried: the model is left at once, with one
\* attempt recorded for it, and generate is on the next model of the order
\* (or, after the last model, has given up).
C4_RateLimitNeverRetried ==
    \A p \in Procs : \A pos \in Positions(p) :
        IsRateLimitAnswer(answers[p][pos]) =>
            /\ ~Pending(p, pos)
            /\ Len(attempts[p]) >= pos
            /\ attempts[p][pos].model = models_to_try[p][pos]
            /\ attempts[p][pos].status_code = RateLimitStatus
            /\ IF pos < Len(models_to_try[p])
               THEN cur[p] > pos /\ invCount[p][pos + 1] >= 1
               ELSE pc[p] = "done" /\ outcome[p].kind = "ALL_MODELS_FAILED"

\* C4 witness: a 429 that came after a transient failure of the same model,
\* with retry budget left, and the call went on to the second model.
C4_Witness ==
    \E p \in Procs :
        /\ Len(models_to_try[p]) = 2
        /\ IsRateLimitAnswer(answers[p][1])
        /\ MentionsTransient(answers[p][1].text)
        /\ invCount[p][1] = 2
        /\ options.max_retries = 2
        /\ cur[p] = 2

\* C5: a model is invoked at most max_retries + 1 times in one call; when its
\* last answer was a transient error and the call fell back, it was invoked
\* exactly that often; a success on any invocation is returned for it.
C5_RetryBudget ==
    \A p \in Procs : \A pos \in Positions(p) :
        /\ invCount[p][pos] <= options.max_retries + 1
        /\ (IsTransientAnswer(answers[p][pos]) /\ ~Pending(p, pos)
              => invCount[p][pos] = options.max_retries + 1)
        /\ (answers[p][pos] = Ok
              => outcome[p].kind = "Success"
                 /\ outcome[p].model = models_to_try[p][pos])

\* C5 witness: the budget of 2 was used up on the first model and the call
\* fell back to the second.
C5_Witness ==
    \E p \in Procs :
        /\ options.max_retries = 2
        /\ Len(models_to_try[p]) = 2
        /\ IsTransientAnswer(answers[p][1])
        /\ invCount[p][1] = 3
        /\ cur[p] = 2

\* C6: the delay before the k-th retry of a model is retry_delay * 2^(k-1),
\* counted afresh for each model, and there is one delay per retry.
C6_BackoffDelays ==
    \A p \in Procs : \A pos \in Positions(p) :
        /\ delays[p][pos] =
               [k \in 1 .. Len(delays[p][pos]) |->
                    options.retry_delay * (2 ^ (k - 1))]
        /\ invCount[p][pos] > 0 =>
               Len(delays[p][pos]) =
                   IF cur[p] = pos /\ pc[p] = "sleeping"
                   THEN invCount[p][pos] ELSE invCount[p][pos] - 1

\* C6 witness: max retries 2, base delay 1, two 5xx failures then a success:
\* three invocations, delays 1 then 2; and a second model retried from 1.
C6_Witness ==
    \E p \in Procs :
        /\ options.max_retries = 2 /\ options.retry_delay = 1
        /\ models_to_try[p] # <<>>
        /\ LET n == Len(models_to_try[p])
           IN  /\ answers[p][n] = Ok
               /\ invCount[p][n] = 3
               /\ delays[p][n] = <<1, 2>>

\* C7: a call that is in flight ends, and it ends in exactly one of Success,
\* AUTH_ERROR and ALL_MODELS_FAILED; nothing else reaches the caller.
C7_OutcomeShape ==
    \A p \in Procs :
        /\ pc[p] = "done" <=>
               outcome[p].kind \in {"Success", "AUTH_ERROR", "ALL_MODELS_FAILED"}
        /\ pc[p] # "done" => outcome[p] = NoOutcome

C7_TerminalOutcome ==
    /\ []C7_OutcomeShape
    /\ \A p \in Procs : (pc[p] \in {"invoking", "sleeping"}) ~> (pc[p] = "done")

\* C7 witness: a call that retried, fell back on an unclassified error and
\* ended with ALL_MODELS_FAILED.
C7_Witness ==
    \E p \in Procs :
        /\ outcome[p].kind = "ALL_MODELS_FAILED"
        /\ Len(models_to_try[p]) = 2
        /\ delays[p][1] # <<>>
        /\ StatusOf(answers[p][2]) = None

\* C8: generate ends with ALL_MODELS_FAILED exactly when every model's last
\* answer was a non-authentication error, and then the attempt list has one
\* record per model, in order, with that model's error text and status code.
C8_AllModelsFailedAttempts ==
    \A p \in Procs :
        LET allFailed == \A pos \in Positions(p) :
                             /\ answers[p][pos] \in Errors
                             /\ ~IsAuthAnswer(answers[p][pos])
        IN  /\ (pc[p] = "done" /\ allFailed)
                => outcome[p].kind = "ALL_MODELS_FAILED"
            /\ outcome[p].kind = "ALL_MODELS_FAILED" =>
                /\ allFailed
                /\ Len(outcome[p].attempts) = Len(models_to_try[p])
                /\ \A i \in Positions(p) :
                     /\ outcome[p].attempts[i].model = models_to_try[p][i]
                     /\ outcome[p].attempts[i].error = answers[p][i].text
                     /\ outcome[p].attempts[i].status_code =
                            StatusOf(answers[p][i])

\* C8 witness: two models failed, one of them with a status read from the
\* status_code attribute, the other with a 429.
C8_Witness ==
    \E p \in Procs :
        /\ outcome[p].kind = "ALL_MODELS_FAILED"
        /\ Len(outcome[p].attempts) = 2
        /\ outcome[p].attempts[1].status_code = 503
        /\ outcome[p].attempts[2].status_code = RateLimitStatus
        /\ outcome[p].attempts[1].model # outcome[p].attempts[2].model

\* C9: a call takes its credential from the rotator once: every invocation of
\* the call uses that credential, and after n calls the rotator was asked n
\* times and the round-robin cursor stands at n mod k.
C9_OneCredentialPerCall ==
    /\ \A p \in Procs :
           /\ keys_used[p] \subseteq {key_info[p].key}
           /\ (HasRotator /\ pc[p] # "idle") =>
                  key_info[p].index = selected[Len(selected)]
    /\ HasRotator => selections = calls /\ Len(selected) = calls
    /\ ~HasRotator => selections = 0
    /\ (HasRotator /\ options.api_key_rotation_strategy = "round-robin")
           => current_index = calls % NumKeys

\* C9 witness: the second call of a two-key round-robin client, gone through
\* a retry and a fallback; the cursor is back at 0.
C9_Witness ==
    /\ NumKeys = 2
    /\ options.api_key_rotation_strategy = "round-robin"
    /\ calls = 2
    /\ key_info[1].index = 1
    /\ Len(models_to_try[1]) = 2
    /\ invCount[1][1] >= 2 /\ invCount[1][2] >= 1
    /\ current_index = 0

\* C10: with round-robin over k credentials the i-th selection (from 0)
\* returns credential i mod k, whatever was recorded in between.
C10_RoundRobinOrder ==
    options.api_key_rotation_strategy = "round-robin" =>
        \A i \in 1 .. Len(selected) : selected[i] = (i - 1) % NumKeys

\* C10 witness: three keys, four selections (the cursor wrapped) with
\* successes and failures recorded in between.
C10_Witness ==
    /\ options.api_key_rotation_strategy = "round-robin"
    /\ NumKeys = 3
    /\ Len(selected) = 4
    /\ records = 2
    /\ \E i \in KeyIndices : stats[i].failure_count > 0

\* C11: with the least-used strategy every selection returns a credential
\* whose total_requests is minimal over all credentials at that moment, and
\* the lowest-indexed one among those with the minimum, whatever selections
\* and record_success / record_failure calls came before.
C11_LeastUsedPick ==
    [][(options.api_key_rotation_strategy = "least-used"
        /\ selections' = selections + 1) =>
           LET i == selected'[Len(selected')]
           IN  /\ i \in KeyIndices
               /\ \A j \in KeyIndices :
                      stats[i].total_requests <= stats[j].total_requests
               /\ \A j \in KeyIndices :
                      j < i => stats[j].total_requests > stats[i].total_requests
      ]_vars

\* C11 witness: three keys, key 0 has one recorded request and keys 1 and 2
\* have none; the selection made after that record returned key 1.
C11_Witness ==
    /\ options.api_key_rotation_strategy = "least-used"
    /\ NumKeys = 3
    /\ stats[0].total_requests = 1
    /\ stats[1].total_requests = 0
    /\ stats[2].total_requests = 0
    /\ selected # <<>>
    /\ selected[Len(selected)] = 1
    /\ stats[1].last_used > 0

\* the three counters of every credential (last_used left aside)
Counts(st) ==
    [i \in DOMAIN st |-> <<st[i].total_requests, st[i].success_count,
                           st[i].failure_count>>]
\* the step in which the call of coroutine p terminates
Finishes(p) == pc'[p] = "done" /\ (pc[p] # "done" \/ calls' # calls)

Younger(m, q, horizon) ==
    SelectSeq(LogOf(rate_log, m), LAMBDA t : q - t < horizon)

\* C13: a status query made at time q counts a request recorded at time t in
\* the requests of the last minute (and in current_rpm) exactly when
\* q - t < 60 seconds, and in the requests of the last five minutes exactly
\* when q - t < 300 seconds, for every request recorded for that model.
C13_RateWindows ==
    [][(queries' = queries + 1 /\ reply'.op = "status") =>
          LET m == reply'.model
              st == reply'.value
          IN  /\ reply'.at = now
              /\ st.requests_in_last_minute = Len(Younger(m, now, MinuteSecs))
              /\ st.current_rpm = Len(Younger(m, now, MinuteSecs))
              /\ st.requests_in_last_5_minutes =
                     Len(Younger(m, now, WindowSecs))
      ]_vars

\* C13 witness: a status query answered 0 for the last minute and 1 for the
\* last five minutes for a model with two recorded requests, one of them 300
\* seconds old or more and the other between 60 and 300 seconds old.
C13_Witness ==
    /\ reply.op = "status"
    /\ Len(LogOf(rate_log, reply.model)) = 2
    /\ reply.at - rate_log[reply.model][1] >= WindowSecs
    /\ reply.at - rate_log[reply.model][2] >= MinuteSecs
    /\ reply.at - rate_log[reply.model][2] < WindowSecs
    /\ reply.value.requests_in_last_minute = 0
    /\ reply.value.requests_in_last_5_minutes = 1

\* the smallest element of a non-empty sequence of numbers
Oldest(sq) == CHOOSE x \in {sq[i] : i \in DOMAIN sq} :
                  \A i \in DOMAIN sq : x <= sq[i]

\* C14: get_recommended_wait_time(model) asked at time q returns 0 when
\* fewer requests than the model's limit were recorded in the 60 seconds
\* before q; otherwise it returns max(0, oldest + 60 - q) in milliseconds,
\* oldest being the oldest request still inside those 60 seconds; the
\* result is never negative.
C14_RecommendedWait ==
    [][(queries' = queries + 1 /\ reply'.op = "wait") =>
          LET m == reply'.model
              inWindow == Younger(m, now, MinuteSecs)
          IN  /\ reply'.at = now
              /\ reply'.value >= 0
              /\ Len(inWindow) < Limit(m) => reply'.value = 0
              /\ Len(inWindow) >= Limit(m) =>
                     reply'.value =
                         Max(0, Oldest(inWindow) + MinuteSecs - now) * 1000
      ]_vars

\* C14 witness: gemini-1.5-pro (limit 2) has three recorded requests, the
\* first one out of the 60-second window and the other two inside it, and
\* the wait returned is what the older of those two still needs to age out.
C14_Witness ==
    /\ reply.op = "wait"
    /\ reply.model = "gemini-1.5-pro"
    /\ Len(LogOf(rate_log, reply.model)) = 3
    /\ reply.at - rate_log[reply.model][1] >= MinuteSecs
    /\ reply.at - rate_log[reply.model][2] < MinuteSecs
    /\ reply.at >= rate_log[reply.model][3]
    /\ reply.value > 0
    /\ reply.value = (rate_log[reply.model][2] + MinuteSecs - reply.at) * 1000

\* the step in which coroutine p starts on a model of its list
StartsAttempt(p) ==
    pc'[p] = "invoking" /\ (calls' = calls + 1 \/ cur'[p] # cur[p])

\* C15: whatever would_exceed_limit answers for a model, generate treats the
\* model alike: the models are started in list order with none skipped, the
\* start records the request in the tracker at that very instant and invokes
\* the model at once (no wait is inserted), including when the model is at
\* or over its limit.
C15_PredictionIsAdvisory ==
    /\ [](\A p \in Procs :
             pc[p] \in {"invoking", "sleeping"} =>
                 \A pos \in 1 .. cur[p] : invCount[p][pos] >= 1)
    /\ [][\A p \in Procs :
             StartsAttempt(p) =>
                 LET pos == cur'[p]
                     m == models_to_try'[p][pos]
                     ts == IF m \in DOMAIN request_timestamps'
                           THEN request_timestamps'[m] ELSE <<>>
                 IN  /\ pos = IF calls' = calls + 1 THEN 1 ELSE cur[p] + 1
                     /\ invCount'[p][pos] = 1
                     /\ start_time'[p] = now'
                     /\ wake'[p] = wake[p]
                     /\ options.enable_monitoring =>
                            /\ ts # <<>>
                            /\ ts[Len(ts)] = now'
                            /\ Len(ts) = 1 + Len(Cleanup(
                                   LogOf(request_timestamps, m), now'))
         ]_vars

\* C15 witness: the call fell back to gemini-1.5-pro (limit 2) when two
\* requests for it had been recorded less than a minute before; the model
\* is being invoked and its request is the third in the window.
C15_Witness ==
    /\ options.enable_monitoring
    /\ pc[1] = "invoking"
    /\ cur[1] = 2
    /\ models_to_try[1][2] = "gemini-1.5-pro"
    /\ invCount[1][2] = 1
    /\ Len(LogOf(request_timestamps, "gemini-1.5-pro")) = 3
    /\ request_timestamps["gemini-1.5-pro"][3] = start_time[1]
    /\ request_timestamps["gemini-1.5-pro"][2] < start_time[1]
    /\ CurrentRpm(request_timestamps, "gemini-1.5-pro", now) = 3

\* the samples recorded for model m, oldest first
Samples(m) == LogOf(health_log, m)
Successes(log) == Cardinality({i \in DOMAIN log : log[i].success})
\* the length of the run of failures that ends the history
RECURSIVE FailureRun(_, _)
FailureRun(log, n) ==
    IF n = 0 \/ log[n].success THEN 0 ELSE 1 + FailureRun(log, n - 1)
\* the latencies of the most recent min(n, 100) samples, oldest first
Recent(log) ==
    LET n == Len(log)
        k == IF n < BufferCap THEN n ELSE BufferCap
    IN  [i \in 1 .. k |-> log[n - k + i].ms]
\* the entry at 0-based position idx of sq sorted ascending
Ranked(sq, idx) ==
    CHOOSE v \in {sq[i] : i \in DOMAIN sq} :
        /\ Cardinality({i \in DOMAIN sq : sq[i] < v}) <= idx
        /\ idx < Cardinality({i \in DOMAIN sq : sq[i] <= v})
\* the 95th percentile: position floor(0.95 n) clamped to n - 1, 0 if empty
P95(sq) ==
    IF sq = <<>> THEN 0
    ELSE LET idx == (Len(sq) * 19) \div 20
         IN  Ranked(sq, IF idx < Len(sq) - 1 THEN idx ELSE Len(sq) - 1)

\* C16: after any sequence of record_request calls for a model, get_health
\* reports unhealthy if the history ends in three or more failures or fewer
\* than 80% of all requests succeeded; otherwise degraded if fewer than 95%
\* succeeded or the 95th percentile of the buffered latencies is above
\* 5000 ms; otherwise healthy.  With no request the success rate is 1.0 and
\* the status healthy; three failures in a row give unhealthy whatever the
\* success rate.
C16_HealthStatusRule ==
    [][(queries' = queries + 1 /\ reply'.op = "health") =>
          LET h == reply'.value
              log == Samples(reply'.model)
              n == Len(log)
              ok == Successes(log)
              run == FailureRun(log, n)
              p95 == P95(Recent(log))
              expected ==
                  IF run >= 3 \/ (n > 0 /\ ok * 5 < 4 * n) THEN "unhealthy"
                  ELSE IF (n > 0 /\ ok * 20 < 19 * n) \/ p95 > 5000
                  THEN "degraded"
                  ELSE "healthy"
          IN  /\ h.status = expected
              /\ h.consecutive_failures = run
              /\ h.success_rate = (IF n = 0 THEN <<1, 1>> ELSE <<ok, n>>)
              /\ h.p95_response_time = p95
              /\ n = 0 => h.status = "healthy"
              /\ run >= 3 => h.status = "unhealthy"
      ]_vars

\* C16 witness: a model with 100 successes followed by three failures (a
\* success rate above 0.95) is reported unhealthy.
C16_Witness ==
    /\ reply.op = "health"
    /\ reply.value.status = "unhealthy"
    /\ reply.value.consecutive_failures = 3
    /\ reply.value.successful_requests = 100
    /\ reply.value.total_requests = 103
    /\ Len(Samples(reply.model)) = 103

\* C17: for every model the latency buffer holds at most 100 samples and is
\* exactly the latencies of the most recent min(total, 100) recorded
\* samples, in recording order (the oldest sample is the one evicted).
C17_LatencyBufferFifo ==
    \A m \in DOMAIN health_data \cup DOMAIN health_log :
        /\ m \in DOMAIN health_data
        /\ Len(health_data[m].response_times) <= 100
        /\ health_data[m].response_times = Recent(Samples(m))

\* C17 witness: a model whose buffer held 99 samples received two more; the
\* buffer holds 100 samples, starts with the second sample ever recorded
\* (which differs from the first) and ends with the 101st.
C17_Witness ==
    \E m \in DOMAIN health_data :
        /\ seeded = 99
        /\ Len(Samples(m)) = 101
        /\ Len(health_data[m].response_times) = 100
        /\ Samples(m)[1].ms # Samples(m)[2].ms
        /\ health_data[m].response_times[1] = Samples(m)[2].ms
        /\ health_data[m].response_times[100] = Samples(m)[101].ms

\* C18: in generate_stream every model of the list is opened at most once
\* per call, in list order, and nothing is retried or slept on, transient
\* errors included; a model after the first is opened only once the model
\* before it has raised or has ended normally without a fragment; and the
\* step in which a stream ends normally without a fragment leaves the
\* health records as they were.
C18_StreamOnePassNoRetry ==
    /\ [](\A p \in Procs :
             /\ retries[p] = 0
             /\ \A pos \in Positions(p) :
                    /\ invCount[p][pos] <= 1
                    /\ delays[p][pos] = <<>>
                    /\ invCount[p][pos] = 1 =>
                           \A q \in 1 .. pos - 1 :
                               /\ invCount[p][q] = 1
                               /\ \/ answers[p][q] \in Errors
                                  \/ /\ answers[p][q] = Ok
                                     /\ fragments[p][q] = 0)
    /\ [][\A p \in Procs :
             \A pos \in Positions(p) :
                 (/\ calls' = calls
                  /\ answers[p][pos] = NoAnswer
                  /\ answers'[p][pos] = Ok
                  /\ fragments[p][pos] = 0) => health_data' = health_data
         ]_vars

\* C18 witness: with max_retries 2 and monitoring on, the first model raised
\* a transient error and was not opened again, the second ended without a
\* fragment; nothing was recorded as a success and the call failed.
C18_Witness ==
    /\ options.enable_monitoring
    /\ options.max_retries = 2
    /\ calls = 1
    /\ pc[1] = "done"
    /\ Len(models_to_try[1]) = 2
    /\ IsTransientAnswer(answers[1][1])
    /\ invCount[1] = <<1, 1>>
    /\ answers[1][2] = Ok
    /\ fragments[1] = <<0, 0>>
    /\ outcome[1].kind = "ALL_MODELS_FAILED"
    /\ models_to_try[1][2] \notin DOMAIN health_data

\* the success and failure counters the monitor holds for model m
HealthCounters(hd, m) ==
    IF m \in DOMAIN hd THEN <<hd[m].successes, hd[m].failures>> ELSE <<0, 0>>
\* the step in which the stream attempt of p at position pos is over
AttemptOver(p, pos) ==
    calls' = calls /\ answers[p][pos] = NoAnswer /\ answers'[p][pos] # NoAnswer

\* C19 (as claimed): with monitoring on, the step that ends a model's stream
\* attempt records a success for that model exactly when the attempt
\* produced at least one fragment, and records a failure only when an error
\* was raised and no fragment had been produced.
C19_StreamHealthByFragments ==
    [][options.enable_monitoring =>
          \A p \in Procs : \A pos \in Positions(p) :
              AttemptOver(p, pos) =>
                  LET m == models_to_try[p][pos]
                      before == HealthCounters(health_data, m)
                      after == HealthCounters(health_data', m)
                      produced == fragments[p][pos] >= 1
                  IN  /\ (after[1] = before[1] + 1) <=> produced
                      /\ after[1] \in {before[1], before[1] + 1}
                      /\ (after[2] # before[2]) =>
                             /\ answers'[p][pos] \in Errors
                             /\ ~produced
      ]_vars

\* C20 (as claimed): in a stream call a 401/403 failure of a model ends the
\* call with AUTH_ERROR and no later model of the list is opened.
C20_StreamAuthAborts ==
    \A p \in Procs : \A pos \in Positions(p) :
        (invCount[p][pos] = 1 /\ IsAuthAnswer(answers[p][pos])) =>
            /\ pc[p] = "done"
            /\ outcome[p].kind = "AUTH_ERROR"
            /\ \A q \in Positions(p) : q > pos => invCount[p][q] = 0

\* C21 (as claimed): a get_fallback_stats call, made at any point, leaves
\* the credential stats, the rotation cursor, every rate window and every
\* health record exactly as they were (so it creates no entry either).
C21_StatsReadOnly ==
    [][(queries' = queries + 1 /\ reply'.op = "stats") =>
          /\ stats' = stats
          /\ current_index' = current_index
          /\ request_timestamps' = request_timestamps
          /\ health_data' = health_data
      ]_vars

\* no generate call is in flight
Quiet == \A p \in Procs : pc[p] \in {"idle", "done"}
\* the attempts of the calls made so far that are over, on model m
CompletedAttempts(m) ==
    {pi \in Procs \X (1 .. 2) :
        /\ pi[2] <= Len(models_to_try[pi[1]])
        /\ models_to_try[pi[1]][pi[2]] = m
        /\ \/ pi[2] < cur[pi[1]]
           \/ pi[2] = cur[pi[1]] /\ pc[pi[1]] = "done"}
\* the attempts of the calls made so far, on model m
StartedAttempts(m) ==
    {pi \in Procs \X (1 .. 2) :
        /\ pi[2] <= Len(models_to_try[pi[1]])
        /\ models_to_try[pi[1]][pi[2]] = m
        /\ pi[2] <= cur[pi[1]]}
HealthTotal(m) ==
    IF m \in DOMAIN health_data
    THEN health_data[m].successes + health_data[m].failures ELSE 0
WindowInHorizon(m) ==
    IF m \in DOMAIN request_timestamps
    THEN Len(SelectSeq(request_timestamps[m],
                       LAMBDA t : now - t < WindowSecs))
    ELSE 0
TotalRequests ==
    Sum([i \in 1 .. NumKeys |-> stats[i - 1].total_requests])

\* C22: when generate calls of one client interleave at their awaits, no
\* update of the shared statistics is lost: whenever no call is in flight,
\* the total_requests of the credentials add up to the number of finished
\* calls, each model's health total is the number of completed attempts on
\* it, and each model's rate window holds one entry per attempt made on it
\* within the horizon.
C22_NoLostUpdate ==
    Quiet =>
        /\ TotalRequests = Cardinality({p \in Procs : pc[p] = "done"})
        /\ \A m \in Models :
              /\ HealthTotal(m) = Cardinality(CompletedAttempts(m))
              /\ WindowInHorizon(m) = Cardinality(StartedAttempts(m))

\* Two calls overlapped: coroutine 1 started on gemini-2.5-flash no later
\* than coroutine 2 started on gemini-1.5-pro, coroutine 2 failed there
\* first, and coroutine 1, fallen back to gemini-1.5-pro, succeeded after it.
C22_NoLostUpdate_Witness ==
    /\ Quiet
    /\ outcome[1].kind = "Success" /\ outcome[1].model = "gemini-1.5-pro"
    /\ Len(attempts[1]) = 1
    /\ models_to_try[2] = <<"gemini-1.5-pro">>
    /\ outcome[2].kind = "ALL_MODELS_FAILED"
    /\ request_timestamps["gemini-2.5-flash"][1]
          <= request_timestamps["gemini-1.5-pro"][1]
    /\ health_data["gemini-1.5-pro"].successes = 1
    /\ health_data["gemini-1.5-pro"].failures = 1
    /\ health_data["gemini-1.5-pro"].consecutive_failures = 0
    /\ TotalRequests = 2

\* the step in which coroutine p is cancelled at its await
Cancels(p) ==
    /\ pc[p] \in {"invoking", "sleeping"}
    /\ calls' = calls
    /\ answers'[p][cur[p]] = Cancelled

\* C23: when a generate call is cancelled while parked in the collaborator
\* call or in a backoff sleep, the step records neither a success nor a
\* failure in the health monitor or against any credential, and the call is
\* over: it invokes nothing more, neither as a retry nor on a later model.
C23_CancelRecordsNothing ==
    /\ [](\A p \in Procs : outcome[p].kind = "CANCELLED" => pc[p] = "done")
    /\ [][\A p \in Procs :
            Cancels(p) =>
                /\ health_data' = health_data
                /\ Counts(stats') = Counts(stats)
                /\ outcome'[p].kind = "CANCELLED"
                /\ pc'[p] = "done"
                /\ invCount' = invCount
                /\ cur' = cur
                /\ retries' = retries
                /\ delays' = delays
         ]_vars

\* A call cancelled during the sleep that follows a transient failure of
\* its second model, the first model having failed for good: the health
\* monitor holds the one failure recorded before, the credential nothing.
C23_CancelRecordsNothing_Witness ==
    /\ outcome[1].kind = "CANCELLED"
    /\ calls = 1
    /\ cur[1] = 2
    /\ delays[1][2] # <<>>
    /\ invCount[1][2] = 1
    /\ HealthTotal(models_to_try[1][1]) = 1
    /\ HealthTotal(models_to_try[1][2]) = 0
    /\ TotalRequests = 0

\* C24 (as claimed): constructing a rotator or a client from an empty key
\* list fails at construction, so no rotator or client without keys exists
\* on which get_next_key or generate could be called.
C24_NoObjectWithoutKeys ==
    /\ \A class \in {"ApiKeyRotator", "GemBack", "GemBackClient"} :
          Exists(class) => NumKeys >= 1
    /\ (NumKeys = 0 /\ reply.op # "none") => reply.op = "construction_failed"

\* the place of key k in the order the current call tries the keys
KeyRank(k) == ((k - simple_client.index_at_call) % NumKeys) + 1
SimpleFailures == {"ResourceExhausted", "ServiceUnavailable", "Exception"}
\* SDK calls of the current generate_content call, in order
Invoked == simple_client.invoked
\* what the call does after the j-th SDK call, given the answers that end
\* the key loop of a model early
SimpleCallOrder(early) ==
    /\ Invoked # <<>> =>
          Invoked[1].pos = 1 /\ KeyRank(Invoked[1].key) = 1
    /\ \A j \in 1 .. Len(Invoked) - 1 :
          LET a == Invoked[j]
              b == Invoked[j + 1]
          IN  /\ a.answer # "response"
              /\ IF a.answer \notin early /\ KeyRank(a.key) < NumKeys
                 THEN b.pos = a.pos /\ KeyRank(b.key) = KeyRank(a.key) + 1
                 ELSE b.pos = a.pos + 1 /\ KeyRank(b.key) = 1
    /\ \A i, j \in 1 .. Len(Invoked) :
          (Invoked[i].pos = Invoked[j].pos /\ Invoked[i].key = Invoked[j].key)
              => i = j
    /\ Len(Invoked) <= Len(simple_client.models_to_try) * NumKeys
\* the first response ends the call and names its model; a call that is over
\* without one raised
SimpleCallResult ==
    LET sc == simple_client
        n == Len(Invoked)
    IN  /\ (n > 0 /\ Invoked[n].answer = "response") =>
              /\ sc.pc = "done"
              /\ sc.result.kind = "output"
              /\ sc.result.model_used = sc.models_to_try[Invoked[n].pos]
        /\ (sc.pc = "done" /\ (n = 0 \/ Invoked[n].answer # "response")) =>
              sc.result.kind = "raised"

\* C25 (as claimed): within one generate_content call of GemBackClient the
\* keys of a model are tried in rotated order from the current key index,
\* no (model, key) pair is invoked twice, a failed key is followed by the
\* next key of the same model, the next model is started only after the
\* last key of the current one failed, the first response ends the call
\* naming its model, and at most |models| x |keys| SDK calls are made.
C25_KeysThenModels ==
    SimpleCallOrder({}) /\ SimpleCallResult

\* C25 (amended): as above, except that a response blocked by the safety
\* settings (no parts, with prompt_feedback) ends the key loop of its model
\* at once: the next model is started after the last key of the current one
\* failed or after a blocked response on any key.
C25_KeysThenModelsOrBlocked ==
    SimpleCallOrder({"blocked"}) /\ SimpleCallResult

\* With three keys and the key index at 1: model 1 fails on keys 1, 2, 0
\* (a quota failure first), model 2 is blocked on key 1 and the call raises.
C25_KeysThenModelsOrBlocked_Witness ==
    /\ NumKeys = 3
    /\ simple_client.index_at_call = 1
    /\ Len(Invoked) = 4
    /\ Invoked[1] = [pos |-> 1, key |-> 1, answer |-> "ResourceExhausted"]
    /\ Invoked[2].key = 2 /\ Invoked[3].key = 0 /\ Invoked[3].pos = 1
    /\ Invoked[4] = [pos |-> 2, key |-> 1, answer |-> "blocked"]
    /\ simple_client.pc = "done"
    /\ simple_client.result.kind = "raised"
    /\ simple_client.result.error = "Safety Block"

\* the timestamps the tracker stores for model m
Window(m) == LogOf(request_timestamps, m)
InHorizon(ts, t) ==
    \A i \in DOMAIN ts : ts[i] <= t /\ t - ts[i] < WindowSecs
NonDecreasing(ts) ==
    \A i, j \in DOMAIN ts : i < j => ts[i] <= ts[j]
\* the step is a record_request, a get_status or a get_recommended_wait_time
\* for model m
Accesses(m) ==
    \/ Len(LogOf(rate_log', m)) > Len(LogOf(rate_log, m))
    \/ queries' = queries + 1 /\ reply'.model = m

\* C26 (as claimed): between any two operations of the tracker, whatever
\* time has passed, every timestamp stored for a model lies within the last
\* 300 seconds and the stored sequence is non-decreasing.
C26_WindowAtRest ==
    \A m \in Models :
        InHorizon(Window(m), now) /\ NonDecreasing(Window(m))

\* C26 (amended): the stored sequence of every model is non-decreasing at
\* all times, and right after an access to model m (record_request,
\* get_status, get_recommended_wait_time) the window of m holds exactly the
\* requests recorded for m less than 300 seconds before that access; the
\* windows of the other models are left as they were, expired entries
\* included, until they are accessed themselves.
C26_WindowAfterAccess ==
    /\ [](\A m \in Models : NonDecreasing(Window(m)))
    /\ [][\A m \in Models :
            Accesses(m) =>
                /\ InHorizon(LogOf(request_timestamps', m), now')
                /\ LogOf(request_timestamps', m) =
                       SelectSeq(LogOf(rate_log', m),
                                 LAMBDA t : now' - t < WindowSecs)
                /\ \A o \in Models \ {m} :
                       LogOf(request_timestamps', o) = Window(o)
         ]_vars

\* gemini-1.5-pro has just been queried and holds the one request of its
\* two that is younger than 300 seconds, while gemini-2.5-flash, not
\* accessed since, still stores a request that has expired.
C26_WindowAfterAccess_Witness ==
    /\ reply.op = "status"
    /\ reply.model = "gemini-1.5-pro"
    /\ reply.at = now
    /\ Len(LogOf(rate_log, "gemini-1.5-pro")) = 2
    /\ Len(Window("gemini-1.5-pro")) = 1
    /\ InHorizon(Window("gemini-1.5-pro"), now)
    /\ Window("gemini-2.5-flash") # <<>>
    /\ ~InHorizon(Window("gemini-2.5-flash"), now)

\* the step in which the attempt of p on its current model is over
EndsAttempt(p) ==
    /\ calls' = calls
    /\ pc[p] = "invoking"
    /\ (pc'[p] = "done" \/ cur'[p] # cur[p])
Plus(c, d) == <<c[1] + d[1], c[2] + d[2]>>

\* C27: with monitoring on, the start of a model attempt adds one entry to
\* that model's rate window and the end of the attempt books one health
\* record for it (a success after a response, a failure after an error);
\* the invocations and sleeps of the retry loop in between add nothing. So
\* after a call each model's health total and window have grown by the
\* number of attempts the call made on it, however many invocations those
\* took.
C27_OneRecordPerAttempt ==
    /\ []((options.enable_monitoring /\ calls = 1 /\ pc[1] = "done") =>
            \A m \in Models :
                /\ HealthTotal(m) = Cardinality(CompletedAttempts(m))
                /\ Len(Window(m)) = Cardinality(StartedAttempts(m)))
    /\ [][options.enable_monitoring =>
            \A m \in Models :
                /\ Len(LogOf(request_timestamps', m)) =
                       Len(Window(m)) +
                       (IF StartsAttempt(1) /\ models_to_try'[1][cur'[1]] = m
                        THEN 1 ELSE 0)
                /\ HealthCounters(health_data', m) =
                       Plus(HealthCounters(health_data, m),
                            IF EndsAttempt(1) /\ models_to_try[1][cur[1]] = m
                            THEN IF answers'[1][cur[1]].ok THEN <<1, 0>>
                                 ELSE <<0, 1>>
                            ELSE <<0, 0>>)
         ]_vars

\* A monitored call that invoked its first model three times (two retries),
\* fell back and got a response from the second model at the second
\* invocation: one health record and one window entry for each model.
C27_OneRecordPerAttempt_Witness ==
    /\ options.enable_monitoring
    /\ calls = 1 /\ pc[1] = "done"
    /\ outcome[1].kind = "Success"
    /\ cur[1] = 2
    /\ invCount[1] = <<3, 2>>
    /\ HealthCounters(health_data, models_to_try[1][1]) = <<0, 1>>
    /\ HealthCounters(health_data, models_to_try[1][2]) = <<1, 0>>
    /\ Len(Window(models_to_try[1][1])) = 1
    /\ Len(Window(models_to_try[1][2])) = 1

\* C28 (as claimed): the fragments one generate_stream call yields all come
\* from one model: once a model of the list has yielded a fragment, no
\* later model is opened and none yields anything, whatever happens to the
\* first stream afterwards.
C28_StreamSingleModel ==
    \A p \in Procs :
        /\ Cardinality({pos \in Positions(p) : fragments[p][pos] > 0}) <= 1
        /\ \A pos, q \in Positions(p) :
              (pos < q /\ fragments[p][pos] > 0) =>
                  invCount[p][q] = 0 /\ fragments[p][q] = 0

====
